---------------------------- MODULE Spec2Model ----------------------------
(***************************************************************************)
(* Model of the opensink example agents: the finance news agent, the       *)
(* trading agent with its human approval gate, and the marketing agent.    *)
(* Every POST /agent/run is an invocation that runs in a slot of the       *)
(* server; each awaited external call is one step, so invocations          *)
(* interleave at their awaits as they do on the event loop.  The external  *)
(* stores (sessions, input requests, sink items, activities) are the       *)
(* shared state.  Every external call may throw.                           *)
(***************************************************************************)
EXTENDS Integers, Sequences, FiniteSets, TLC

VARIABLES
    example,      \* which example service this process is
    sessions,     \* session store: session id -> [status, state, error_message]
    requests,     \* input request store: request id -> [session_id, key, response]
    sinkItems,    \* sink item store, in the order written
    activities,   \* activity log store, in the order written
    inv,          \* slot -> the invocation running in it
    budget        \* what the environment may still do: requests it may send,
                  \* external calls that may throw

vars == <<example, sessions, requests, sinkItems, activities, inv, budget>>

----------------------------------------------------------------------------
(* Bounds *)

MaxFresh == 1           \* POST /agent/run without continuation headers
MaxContinuations == 2   \* POST /agent/run with both continuation headers
MaxFaults == 2          \* external calls that throw
MaxConcurrent == 2      \* invocations in flight at once
MaxTrades == 2
MaxArticles == 1
MaxTweets == 1          \* raw tweets the scraper returns
MaxItems == 1           \* items one analysis call returns

Slots == 1..MaxConcurrent

----------------------------------------------------------------------------
(* Values *)

Examples == {"finance", "trading", "marketing"}

NEWS_SINK_ID == "news"
TRADES_SINK_ID == "trades"

RUNNING == "RUNNING"
COMPLETED == "COMPLETED"
FAILED == "FAILED"

\* a JSON null
Null == [null |-> TRUE]

\* a request header that is absent, and one sent with an empty value; any
\* other header value is the id of a record
NoHeader == 0
EmptyHeader == -1

\* Truthy taking the empty header value for a value
Truthy_acceptsEmpty(header) == header /= NoHeader

\* a header value as a condition: undefined and '' are falsy
Truthy(header) == header /= NoHeader /\ header /= EmptyHeader

\* an object without properties
EmptyObj == <<>>

Has(obj, k) == k \in DOMAIN obj

\* { ...base, ...over }
Spread(base, over) == over @@ base

SeqsUpTo(S, n) == UNION { [1..k -> S] : k \in 0..n }

\* the k-th trade the language model proposes
Trade(k) ==
    [symbol |-> "S" \o ToString(k), action |-> IF k % 2 = 1 THEN "buy" ELSE "sell",
     quantity |-> k, reason |-> "r" \o ToString(k)]

\* what the language model may answer to proposeTrades: up to MaxTrades
\* trades, all different
TradeLists == { [k \in 1..n |-> Trade(k)] : n \in 0..MaxTrades }

ArticleValues == { [title |-> "a1", category |-> "markets"] }

\* what the model may answer to pickTopArticles
ArticleLists == SeqsUpTo(ArticleValues, MaxArticles)

\* the key of the i-th proposed trade (i counts from 0)
TradeKey(i) == "trade_" \o ToString(i)

TradeKeys == { TradeKey(i) : i \in 0..(MaxTrades - 1) }

\* the responses a human may record: any subset of the trade keys, each with
\* an approved flag, and optionally notes
TradeResponses ==
    UNION { [K -> { [approved |-> TRUE], [approved |-> FALSE] }] : K \in SUBSET TradeKeys }

Responses ==
    TradeResponses \cup
    { Spread([k \in {TradeKey(0)} |-> [approved |-> TRUE]], [notes |-> "n"]) }

\* response?.notes
Notes(response) == IF Has(response, "notes") THEN response.notes ELSE "undefined"

\* the four analysis categories of the marketing example, in the order the
\* handler stores them; each is the key of its sink id in config.sinks
CategoryOrder == <<"opportunities", "trends", "tools", "tutorials">>
Categories == { CategoryOrder[k] : k \in 1..Len(CategoryOrder) }

Idle ==
    [ pc |-> "idle", sessionId |-> NoHeader, requestId |-> NoHeader,
      config |-> EmptyObj, session |-> 0, inputRequest |-> 0,
      state |-> EmptyObj, response |-> Null,
      articles |-> <<>>, proposedTrades |-> <<>>,
      approvedTrades |-> <<>>, rejectedTrades |-> <<>>,
      rawTweets |-> <<>>, tweets |-> <<>>, pending |-> {},
      analysis |-> [c \in Categories |-> <<>>],
      content |-> Null, extracted |-> Null,
      error |-> "", result |-> EmptyObj, calls |-> <<>> ]

\* one awaited external call, as issued: its argument and whether it returned
Call(op, arg, ok) == [op |-> op, arg |-> arg, ok |-> ok]

Init ==
    /\ example \in Examples
    /\ sessions = <<>>
    /\ requests = <<>>
    /\ sinkItems = <<>>
    /\ activities = <<>>
    /\ inv = [i \in Slots |-> Idle]
    /\ budget = [fresh |-> MaxFresh, continuations |-> MaxContinuations, faults |-> MaxFaults]


----------------------------------------------------------------------------
(* The external stores *)

\* agentSessions.create: the store assigns the next id
CreateSession(status, state) ==
    Append(sessions, [status |-> status, state |-> state, error_message |-> ""])

\* agentSessions.update: the fields given replace the stored ones
UpdateSession(id, patch) ==
    [sessions EXCEPT ![id] = Spread(@, patch)]

\* agentSessionInputRequests.create: a request starts without a response
CreateInputRequest(session_id, key) ==
    Append(requests, [session_id |-> session_id, key |-> key, response |-> Null])

\* sinkItems.createMany
CreateMany(items) == sinkItems \o items

\* agentSessionActivities.create
CreateActivity(session_id, type, message) ==
    Append(activities, [session_id |-> session_id, type |-> type, message |-> message])

----------------------------------------------------------------------------
(* Steps of an invocation.  Each awaited external call is one step: the    *)
(* call either returns or throws.                                          *)

\* where the catch block of the running handler starts
CatchBlock ==
    IF example = "finance" THEN "f.catch"
    ELSE IF example = "marketing" THEN "m.catch"
    ELSE "catch"

\* the awaited call op returned: go on at next
Returned(i, op, arg, next) ==
    [inv[i] EXCEPT !.pc = next, !.calls = Append(@, Call(op, arg, TRUE))]

\* the awaited call op threw inside the try block: go to the catch block
Caught(i, op, arg) ==
    [inv[i] EXCEPT !.pc = CatchBlock, !.error = op,
                   !.calls = Append(@, Call(op, arg, FALSE))]

\* the awaited call op threw outside any try block: the handler rejects
Escaped(i, op, arg) ==
    [inv[i] EXCEPT !.pc = "threw",
                   !.calls = Append(@, Call(op, arg, FALSE))]

\* return value
Return(r, value) == [r EXCEPT !.pc = "done", !.result = value]

\* the step of invocation i when its call returns
Succeeds(i, r) ==
    /\ inv' = [inv EXCEPT ![i] = r]
    /\ UNCHANGED budget

\* the step of invocation i when its call throws
Throws(i, r) ==
    /\ budget.faults > 0
    /\ budget' = [budget EXCEPT !.faults = @ - 1]
    /\ inv' = [inv EXCEPT ![i] = r]

FirstFree ==
    CHOOSE i \in Slots : inv[i].pc = "idle" /\ \A j \in Slots : inv[j].pc = "idle" => i <= j

\* a header is absent, empty or names a record of the store
HeaderValues(store) == {NoHeader, EmptyHeader} \cup (1..Len(store))

\* routes: POST /agent/run of the trading example
routes_trading ==
    /\ example = "trading"
    /\ \E i \in Slots : inv[i].pc = "idle"
    /\ \E sessionId \in HeaderValues(sessions), requestId \in HeaderValues(requests) :
         LET continuation == Truthy(sessionId) /\ Truthy(requestId) IN
         /\ IF continuation THEN budget.continuations > 0 ELSE budget.fresh > 0
         /\ budget' = IF continuation
                      THEN [budget EXCEPT !.continuations = @ - 1]
                      ELSE [budget EXCEPT !.fresh = @ - 1]
         /\ inv' = [inv EXCEPT ![FirstFree] =
                   [Idle EXCEPT !.sessionId = sessionId,
                                !.requestId = requestId,
                                !.pc = IF continuation
                                       THEN "handleTradeExecution"
                                       ELSE "startNewWorkflow"]]
    /\ UNCHANGED <<example, activities, sessions, requests, sinkItems>>

\* the response is sent and the slot is free again
Reply(i) ==
    /\ inv[i].pc \in {"done", "threw"}
    /\ inv' = [inv EXCEPT ![i] = Idle]
    /\ UNCHANGED <<example, activities, sessions, requests, sinkItems, budget>>

\* a human answers an input request in the store's UI
HumanResponds(r) ==
    /\ r \in 1..Len(requests)
    /\ requests[r].response = Null
    /\ \E response \in Responses :
         requests' = [requests EXCEPT ![r].response = response]
    /\ UNCHANGED <<example, activities, sessions, sinkItems, inv, budget>>

----------------------------------------------------------------------------
(* Trading example: startNewWorkflow *)

TradingConfigs == { [enabled |-> b, newItemsCount |-> 2] : b \in BOOLEAN }

Disabled == [success |-> FALSE, reason |-> "Agent is disabled"]

Failure(error) == [success |-> FALSE, reason |-> error]

\* the sub-object of one trade in the approval schema; title and
\* description are texts for the reader and left out
TradeProperty(trade) ==
    [ type |-> "object",
      properties |->
        [ symbol |-> [type |-> "string", const |-> trade.symbol,
                      default |-> trade.symbol, readOnly |-> TRUE],
          action |-> [type |-> "string", const |-> trade.action,
                      default |-> trade.action, readOnly |-> TRUE],
          quantity |-> [type |-> "number", const |-> trade.quantity,
                        default |-> trade.quantity, readOnly |-> TRUE],
          approved |-> [type |-> "boolean", default |-> FALSE] ],
      required |-> <<"approved">> ]

NotesProperty == [type |-> "string"]

\* buildTradeApprovalSchema with the keys counted from 1
buildTradeApprovalSchema_fromOne(trades) ==
    LET keys == { TradeKey(k) : k \in 1..Len(trades) }
        tradeAt(key) == trades[CHOOSE k \in 1..Len(trades) : TradeKey(k) = key]
    IN  [ type |-> "object",
          properties |->
            [key \in keys \cup {"notes"} |->
                IF key = "notes" THEN NotesProperty ELSE TradeProperty(tradeAt(key))],
          required |-> [k \in 1..Len(trades) |-> TradeKey(k)] ]

\* buildTradeApprovalSchema: one property per trade, keyed by its position
\* counted from 0, each key required, and the notes
buildTradeApprovalSchema(trades) ==
    LET keys == { TradeKey(k - 1) : k \in 1..Len(trades) }
        tradeAt(key) == trades[CHOOSE k \in 1..Len(trades) : TradeKey(k - 1) = key]
    IN  [ type |-> "object",
          properties |->
            [key \in keys \cup {"notes"} |->
                IF key = "notes" THEN NotesProperty ELSE TradeProperty(tradeAt(key))],
          required |-> [k \in 1..Len(trades) |-> TradeKey(k - 1)] ]

NewsItems(topArticles) ==
    [k \in 1..Len(topArticles) |->
        [sink_id |-> NEWS_SINK_ID, title |-> topArticles[k].title,
         fields |-> [category |-> topArticles[k].category]]]

startNewWorkflow_getConfig(i) ==
    /\ inv[i].pc = "startNewWorkflow"
    /\ \/ \E config \in TradingConfigs :
            Succeeds(i, IF ~config.enabled
                        THEN Return([Returned(i, "getActiveForAgent", EmptyObj, "done")
                                        EXCEPT !.config = config],
                                    Disabled)
                        ELSE [Returned(i, "getActiveForAgent", EmptyObj, "createSession")
                                EXCEPT !.config = config])
       \/ Throws(i, Escaped(i, "getActiveForAgent", EmptyObj))
    /\ UNCHANGED <<example, activities, sessions, requests, sinkItems>>

\* startNewWorkflow_createSession joining a session that is still RUNNING
startNewWorkflow_createSession_joinsRunning(i) ==
    /\ inv[i].pc = "createSession"
    /\ LET arg == [status |-> RUNNING, state |-> [phase |-> "analyzing_news"]]
           running == { s \in 1..Len(sessions) : sessions[s].status = RUNNING } IN
       \/ /\ sessions' = IF running = {} THEN CreateSession(arg.status, arg.state) ELSE sessions
          /\ Succeeds(i, [Returned(i, "createSession", arg, "fetchFinancialNews")
                            EXCEPT !.session = IF running = {} THEN Len(sessions) + 1
                                               ELSE CHOOSE s \in running : TRUE])
       \/ /\ Throws(i, Escaped(i, "createSession", arg))
          /\ UNCHANGED sessions
    /\ UNCHANGED <<example, activities, requests, sinkItems>>

startNewWorkflow_createSession(i) ==
    /\ inv[i].pc = "createSession"
    /\ LET arg == [status |-> RUNNING, state |-> [phase |-> "analyzing_news"]] IN
       \/ /\ sessions' = CreateSession(arg.status, arg.state)
          /\ Succeeds(i, [Returned(i, "createSession", arg, "fetchFinancialNews")
                            EXCEPT !.session = Len(sessions) + 1])
       \/ /\ Throws(i, Escaped(i, "createSession", arg))
          /\ UNCHANGED sessions
    /\ UNCHANGED <<example, activities, requests, sinkItems>>

startNewWorkflow_fetchFinancialNews(i) ==
    /\ inv[i].pc = "fetchFinancialNews"
    /\ \/ Succeeds(i, Returned(i, "fetchFinancialNews", EmptyObj, "pickTopArticles"))
       \/ Throws(i, Caught(i, "fetchFinancialNews", EmptyObj))
    /\ UNCHANGED <<example, activities, sessions, requests, sinkItems>>

startNewWorkflow_pickTopArticles(i) ==
    /\ inv[i].pc = "pickTopArticles"
    /\ \/ \E topArticles \in ArticleLists :
            Succeeds(i, [Returned(i, "pickTopArticles", EmptyObj, "updateProposing")
                            EXCEPT !.articles = topArticles])
       \/ Throws(i, Caught(i, "pickTopArticles", EmptyObj))
    /\ UNCHANGED <<example, activities, sessions, requests, sinkItems>>

startNewWorkflow_updateProposing(i) ==
    /\ inv[i].pc = "updateProposing"
    /\ LET arg == [state |-> [phase |-> "proposing_trades", articles |-> inv[i].articles]] IN
       \/ /\ sessions' = UpdateSession(inv[i].session, arg)
          /\ Succeeds(i, Returned(i, "updateSession", arg, "proposeTrades"))
       \/ /\ Throws(i, Caught(i, "updateSession", arg))
          /\ UNCHANGED sessions
    /\ UNCHANGED <<example, activities, requests, sinkItems>>

startNewWorkflow_proposeTrades(i) ==
    /\ inv[i].pc = "proposeTrades"
    /\ \/ \E proposedTrades \in TradeLists :
            Succeeds(i, [Returned(i, "proposeTrades", EmptyObj, "updateAwaiting")
                            EXCEPT !.proposedTrades = proposedTrades])
       \/ Throws(i, Caught(i, "proposeTrades", EmptyObj))
    /\ UNCHANGED <<example, activities, sessions, requests, sinkItems>>

\* startNewWorkflow_updateAwaiting storing the phase without the proposals
startNewWorkflow_updateAwaiting_noTrades(i) ==
    /\ inv[i].pc = "updateAwaiting"
    /\ LET arg == [state |-> [phase |-> "awaiting_approval", articles |-> inv[i].articles]] IN
       \/ /\ sessions' = UpdateSession(inv[i].session, arg)
          /\ Succeeds(i, Returned(i, "updateSession", arg, "createInputRequest"))
       \/ /\ Throws(i, Caught(i, "updateSession", arg))
          /\ UNCHANGED sessions
    /\ UNCHANGED <<example, activities, requests, sinkItems>>

startNewWorkflow_updateAwaiting(i) ==
    /\ inv[i].pc = "updateAwaiting"
    /\ LET arg == [state |-> [phase |-> "awaiting_approval", articles |-> inv[i].articles,
                              proposedTrades |-> inv[i].proposedTrades]] IN
       \/ /\ sessions' = UpdateSession(inv[i].session, arg)
          /\ Succeeds(i, Returned(i, "updateSession", arg, "createInputRequest"))
       \/ /\ Throws(i, Caught(i, "updateSession", arg))
          /\ UNCHANGED sessions
    /\ UNCHANGED <<example, activities, requests, sinkItems>>

startNewWorkflow_createInputRequest(i) ==
    /\ inv[i].pc = "createInputRequest"
    /\ LET arg == [session_id |-> inv[i].session, key |-> "trade_approval",
                   schema |-> buildTradeApprovalSchema(inv[i].proposedTrades)] IN
       \/ /\ requests' = CreateInputRequest(arg.session_id, arg.key)
          /\ Succeeds(i, [Returned(i, "createInputRequest", arg, "createNews")
                            EXCEPT !.inputRequest = Len(requests) + 1])
       \/ /\ Throws(i, Caught(i, "createInputRequest", arg))
          /\ UNCHANGED requests
    /\ UNCHANGED <<example, activities, sessions, sinkItems>>

startNewWorkflow_createNews(i) ==
    /\ inv[i].pc = "createNews"
    /\ LET arg == [items |-> NewsItems(inv[i].articles)] IN
       \/ /\ sinkItems' = CreateMany(arg.items)
          /\ Succeeds(i, Return(Returned(i, "createMany", arg, "done"),
                                [success |-> TRUE, sessionId |-> inv[i].session,
                                 inputRequestId |-> inv[i].inputRequest,
                                 articles |-> inv[i].articles,
                                 proposedTrades |-> inv[i].proposedTrades,
                                 status |-> "awaiting_approval"]))
       \/ /\ Throws(i, Caught(i, "createMany", arg))
          /\ UNCHANGED sinkItems
    /\ UNCHANGED <<example, activities, sessions, requests>>

\* the catch block of startNewWorkflow: mark the session FAILED; this update
\* is awaited outside any try block
startNewWorkflow_catch(i) ==
    /\ inv[i].pc = "catch"
    /\ ~(Truthy(inv[i].sessionId) /\ Truthy(inv[i].requestId))
    /\ LET arg == [status |-> FAILED, error_message |-> inv[i].error] IN
       \/ /\ sessions' = UpdateSession(inv[i].session, arg)
          /\ Succeeds(i, Return(Returned(i, "updateSession", arg, "done"),
                                Failure(inv[i].error)))
       \/ /\ Throws(i, Escaped(i, "updateSession", arg))
          /\ UNCHANGED sessions
    /\ UNCHANGED <<example, activities, requests, sinkItems>>

startNewWorkflow(i) ==
    \/ startNewWorkflow_getConfig(i)
    \/ startNewWorkflow_createSession(i)
    \/ startNewWorkflow_fetchFinancialNews(i)
    \/ startNewWorkflow_pickTopArticles(i)
    \/ startNewWorkflow_updateProposing(i)
    \/ startNewWorkflow_proposeTrades(i)
    \/ startNewWorkflow_updateAwaiting(i)
    \/ startNewWorkflow_createInputRequest(i)
    \/ startNewWorkflow_createNews(i)
    \/ startNewWorkflow_catch(i)

----------------------------------------------------------------------------
(* Trading example: handleTradeExecution *)

\* Approved, reading the key of the next index
Approved_nextKey(response, i) ==
    /\ Has(response, TradeKey(i + 1))
    /\ Has(response[TradeKey(i + 1)], "approved")
    /\ response[TradeKey(i + 1)].approved

\* response[`trade_${i}`]?.approved, as a condition
Approved(response, i) ==
    /\ Has(response, TradeKey(i))
    /\ Has(response[TradeKey(i)], "approved")
    /\ response[TradeKey(i)].approved

\* allTrades.forEach((trade, i) => ...), from index i (counted from 0) on,
\* pushing to the two lists collected so far
RECURSIVE ForEachTrade(_, _, _, _)
ForEachTrade(allTrades, response, i, lists) ==
    IF i >= Len(allTrades) THEN lists
    ELSE ForEachTrade(allTrades, response, i + 1,
            IF Approved(response, i)
            THEN [lists EXCEPT !.approvedTrades = Append(@, allTrades[i + 1])]
            ELSE [lists EXCEPT !.rejectedTrades = Append(@, allTrades[i + 1])])

FilterApproved(allTrades, response) ==
    ForEachTrade(allTrades, response, 0, [approvedTrades |-> <<>>, rejectedTrades |-> <<>>])

\* state.proposedTrades || []
AllTrades(state) == IF Has(state, "proposedTrades") THEN state.proposedTrades ELSE <<>>

ToUpperCase(action) == IF action = "buy" THEN "BUY" ELSE "SELL"

ExecutedTrades(approvedTrades) ==
    [k \in 1..Len(approvedTrades) |->
        Spread(approvedTrades[k], [executedAt |-> "now", status |-> "executed"])]

TradeItem(trade, response) ==
    [sink_id |-> TRADES_SINK_ID,
     title |-> ToUpperCase(trade.action) \o " " \o ToString(trade.quantity) \o " " \o trade.symbol,
     body |-> trade.reason,
     fields |-> Spread([symbol |-> trade.symbol, action |-> trade.action,
                        quantity |-> trade.quantity, executedAt |-> trade.executedAt],
                       IF Has(response, "notes") THEN [approvalNotes |-> response.notes]
                       ELSE EmptyObj)]

TradeItems(executedTrades, response) ==
    [k \in 1..Len(executedTrades) |-> TradeItem(executedTrades[k], response)]

handleTradeExecution_getSession(i) ==
    /\ inv[i].pc = "handleTradeExecution"
    /\ \/ Succeeds(i, [Returned(i, "getSession", EmptyObj, "getInputRequest")
                        EXCEPT !.state = sessions[inv[i].sessionId].state])
       \/ Throws(i, Caught(i, "getSession", EmptyObj))
    /\ UNCHANGED <<example, activities, sessions, requests, sinkItems>>

\* handleTradeExecution_getInputRequest without the return on a null response
handleTradeExecution_getInputRequest_noNullCheck(i) ==
    /\ inv[i].pc = "getInputRequest"
    /\ \/ LET response == requests[inv[i].requestId].response
              lists == FilterApproved(AllTrades(inv[i].state), response)
              got == [Returned(i, "getInputRequest", EmptyObj, "updateExecuting")
                        EXCEPT !.response = response]
          IN  Succeeds(i,
                [got EXCEPT !.approvedTrades = lists.approvedTrades,
                            !.rejectedTrades = lists.rejectedTrades,
                            !.pc = IF Len(lists.approvedTrades) = 0
                                   THEN "updateRejected" ELSE "updateExecuting"])
       \/ Throws(i, Caught(i, "getInputRequest", EmptyObj))
    /\ UNCHANGED <<example, activities, sessions, requests, sinkItems>>

\* handleTradeExecution_getInputRequest without the branch for no approved trade
handleTradeExecution_getInputRequest_noRejectedPath(i) ==
    /\ inv[i].pc = "getInputRequest"
    /\ \/ LET response == requests[inv[i].requestId].response
              lists == FilterApproved(AllTrades(inv[i].state), response)
              got == [Returned(i, "getInputRequest", EmptyObj, "updateExecuting")
                        EXCEPT !.response = response]
          IN  Succeeds(i,
                IF response = Null
                THEN Return(got, [success |-> FALSE, reason |-> "No response found"])
                ELSE [got EXCEPT !.approvedTrades = lists.approvedTrades,
                                 !.rejectedTrades = lists.rejectedTrades])
       \/ Throws(i, Caught(i, "getInputRequest", EmptyObj))
    /\ UNCHANGED <<example, activities, sessions, requests, sinkItems>>

\* the input request is read, and the code up to the next await runs
handleTradeExecution_getInputRequest(i) ==
    /\ inv[i].pc = "getInputRequest"
    /\ \/ LET response == requests[inv[i].requestId].response
              lists == FilterApproved(AllTrades(inv[i].state), response)
              got == [Returned(i, "getInputRequest", EmptyObj, "updateExecuting")
                        EXCEPT !.response = response]
          IN  Succeeds(i,
                IF response = Null
                THEN Return(got, [success |-> FALSE, reason |-> "No response found"])
                ELSE [got EXCEPT !.approvedTrades = lists.approvedTrades,
                                 !.rejectedTrades = lists.rejectedTrades,
                                 !.pc = IF Len(lists.approvedTrades) = 0
                                        THEN "updateRejected" ELSE "updateExecuting"])
       \/ Throws(i, Caught(i, "getInputRequest", EmptyObj))
    /\ UNCHANGED <<example, activities, sessions, requests, sinkItems>>

handleTradeExecution_updateRejected(i) ==
    /\ inv[i].pc = "updateRejected"
    /\ LET arg == [status |-> COMPLETED,
                   state |-> Spread(inv[i].state,
                                [phase |-> "rejected",
                                 rejectedTrades |-> inv[i].rejectedTrades,
                                 notes |-> Notes(inv[i].response)])] IN
       \/ /\ sessions' = UpdateSession(inv[i].sessionId, arg)
          /\ Succeeds(i, Return(Returned(i, "updateSession", arg, "done"),
                                [success |-> TRUE, status |-> "rejected",
                                 rejectedCount |-> Len(inv[i].rejectedTrades),
                                 notes |-> Notes(inv[i].response)]))
       \/ /\ Throws(i, Caught(i, "updateSession", arg))
          /\ UNCHANGED sessions
    /\ UNCHANGED <<example, activities, requests, sinkItems>>

handleTradeExecution_updateExecuting(i) ==
    /\ inv[i].pc = "updateExecuting"
    /\ LET arg == [state |-> Spread(inv[i].state, [phase |-> "executing_trades"])] IN
       \/ /\ sessions' = UpdateSession(inv[i].sessionId, arg)
          /\ Succeeds(i, Returned(i, "updateSession", arg, "createTrades"))
       \/ /\ Throws(i, Caught(i, "updateSession", arg))
          /\ UNCHANGED sessions
    /\ UNCHANGED <<example, activities, requests, sinkItems>>

\* handleTradeExecution_createTrades writing an item for every proposed trade
handleTradeExecution_createTrades_allTrades(i) ==
    /\ inv[i].pc = "createTrades"
    /\ LET arg == [items |-> TradeItems(ExecutedTrades(AllTrades(inv[i].state)), inv[i].response)] IN
       \/ /\ sinkItems' = CreateMany(arg.items)
          /\ Succeeds(i, Returned(i, "createMany", arg, "updateCompleted"))
       \/ /\ Throws(i, Caught(i, "createMany", arg))
          /\ UNCHANGED sinkItems
    /\ UNCHANGED <<example, activities, sessions, requests>>

handleTradeExecution_createTrades(i) ==
    /\ inv[i].pc = "createTrades"
    /\ LET arg == [items |-> TradeItems(ExecutedTrades(inv[i].approvedTrades), inv[i].response)] IN
       \/ /\ sinkItems' = CreateMany(arg.items)
          /\ Succeeds(i, Returned(i, "createMany", arg, "updateCompleted"))
       \/ /\ Throws(i, Caught(i, "createMany", arg))
          /\ UNCHANGED sinkItems
    /\ UNCHANGED <<example, activities, sessions, requests>>

\* handleTradeExecution_updateCompleted leaving the status as it is
handleTradeExecution_updateCompleted_noStatus(i) ==
    /\ inv[i].pc = "updateCompleted"
    /\ LET executedTrades == ExecutedTrades(inv[i].approvedTrades)
           arg == [state |-> Spread(inv[i].state,
                                [phase |-> "completed",
                                 executedTrades |-> executedTrades,
                                 rejectedTrades |-> inv[i].rejectedTrades,
                                 notes |-> Notes(inv[i].response)])] IN
       \/ /\ sessions' = UpdateSession(inv[i].sessionId, arg)
          /\ Succeeds(i, Return(Returned(i, "updateSession", arg, "done"),
                                [success |-> TRUE, status |-> "executed",
                                 executedCount |-> Len(executedTrades),
                                 rejectedCount |-> Len(inv[i].rejectedTrades),
                                 trades |-> executedTrades]))
       \/ /\ Throws(i, Caught(i, "updateSession", arg))
          /\ UNCHANGED sessions
    /\ UNCHANGED <<example, activities, requests, sinkItems>>

handleTradeExecution_updateCompleted(i) ==
    /\ inv[i].pc = "updateCompleted"
    /\ LET executedTrades == ExecutedTrades(inv[i].approvedTrades)
           arg == [status |-> COMPLETED,
                   state |-> Spread(inv[i].state,
                                [phase |-> "completed",
                                 executedTrades |-> executedTrades,
                                 rejectedTrades |-> inv[i].rejectedTrades,
                                 notes |-> Notes(inv[i].response)])] IN
       \/ /\ sessions' = UpdateSession(inv[i].sessionId, arg)
          /\ Succeeds(i, Return(Returned(i, "updateSession", arg, "done"),
                                [success |-> TRUE, status |-> "executed",
                                 executedCount |-> Len(executedTrades),
                                 rejectedCount |-> Len(inv[i].rejectedTrades),
                                 trades |-> executedTrades]))
       \/ /\ Throws(i, Caught(i, "updateSession", arg))
          /\ UNCHANGED sessions
    /\ UNCHANGED <<example, activities, requests, sinkItems>>

\* the catch block of handleTradeExecution: mark the session named by the
\* header FAILED; this update is awaited outside any try block
handleTradeExecution_catch(i) ==
    /\ inv[i].pc = "catch"
    /\ Truthy(inv[i].sessionId) /\ Truthy(inv[i].requestId)
    /\ LET arg == [status |-> FAILED, error_message |-> inv[i].error] IN
       \/ /\ sessions' = UpdateSession(inv[i].sessionId, arg)
          /\ Succeeds(i, Return(Returned(i, "updateSession", arg, "done"),
                                Failure(inv[i].error)))
       \/ /\ Throws(i, Escaped(i, "updateSession", arg))
          /\ UNCHANGED sessions
    /\ UNCHANGED <<example, activities, requests, sinkItems>>

handleTradeExecution(i) ==
    \/ handleTradeExecution_getSession(i)
    \/ handleTradeExecution_getInputRequest(i)
    \/ handleTradeExecution_updateRejected(i)
    \/ handleTradeExecution_updateExecuting(i)
    \/ handleTradeExecution_createTrades(i)
    \/ handleTradeExecution_updateCompleted(i)
    \/ handleTradeExecution_catch(i)

----------------------------------------------------------------------------
(* Finance example: POST /agent/run *)

FinanceConfigs == { [enabled |-> b, newItemsCount |-> 2] : b \in BOOLEAN }

routes_finance ==
    /\ example = "finance"
    /\ \E i \in Slots : inv[i].pc = "idle"
    /\ budget.fresh > 0
    /\ budget' = [budget EXCEPT !.fresh = @ - 1]
    /\ inv' = [inv EXCEPT ![FirstFree] = [Idle EXCEPT !.pc = "f.getConfig"]]
    /\ UNCHANGED <<example, activities, sessions, requests, sinkItems>>

\* logActivity letting the error of the write reach the caller
logActivity_rethrows(i, pc, type, message, next) ==
    /\ inv[i].pc = pc
    /\ LET arg == [session_id |-> inv[i].session, type |-> type, message |-> message] IN
       \/ /\ activities' = CreateActivity(arg.session_id, arg.type, arg.message)
          /\ Succeeds(i, Returned(i, "createActivity", arg, next))
       \/ /\ Throws(i, Caught(i, "createActivity", arg))
          /\ UNCHANGED activities
    /\ UNCHANGED <<example, sessions, requests, sinkItems>>

\* logActivity: the activity is written, or the write throws and the error
\* is only printed; either way the caller goes on at next
logActivity(i, pc, type, message, next) ==
    /\ inv[i].pc = pc
    /\ LET arg == [session_id |-> inv[i].session, type |-> type, message |-> message] IN
       \/ /\ activities' = CreateActivity(arg.session_id, arg.type, arg.message)
          /\ Succeeds(i, Returned(i, "createActivity", arg, next))
       \/ /\ Throws(i, [inv[i] EXCEPT !.pc = next,
                                      !.calls = Append(@, Call("createActivity", arg, FALSE))])
          /\ UNCHANGED activities
    /\ UNCHANGED <<example, sessions, requests, sinkItems>>

finance_getConfig(i) ==
    /\ inv[i].pc = "f.getConfig"
    /\ \/ \E config \in FinanceConfigs :
            Succeeds(i, IF ~config.enabled
                        THEN Return([Returned(i, "getActiveForAgent", EmptyObj, "done")
                                        EXCEPT !.config = config],
                                    Disabled)
                        ELSE [Returned(i, "getActiveForAgent", EmptyObj, "f.createSession")
                                EXCEPT !.config = config])
       \/ Throws(i, Escaped(i, "getActiveForAgent", EmptyObj))
    /\ UNCHANGED <<example, activities, sessions, requests, sinkItems>>

\* finance_createSession taking up the last session of the store again
finance_createSession_resumes(i) ==
    /\ inv[i].pc = "f.createSession"
    /\ LET arg == [status |-> RUNNING, state |-> EmptyObj] IN
       \/ /\ sessions' = IF sessions = <<>> THEN CreateSession(arg.status, arg.state)
                          ELSE UpdateSession(Len(sessions), arg)
          /\ Succeeds(i, [Returned(i, "createSession", arg, "f.logFetching")
                            EXCEPT !.session = IF sessions = <<>> THEN 1 ELSE Len(sessions)])
       \/ /\ Throws(i, Escaped(i, "createSession", arg))
          /\ UNCHANGED sessions
    /\ UNCHANGED <<example, activities, requests, sinkItems>>

finance_createSession(i) ==
    /\ inv[i].pc = "f.createSession"
    /\ LET arg == [status |-> RUNNING, state |-> EmptyObj] IN
       \/ /\ sessions' = CreateSession(arg.status, arg.state)
          /\ Succeeds(i, [Returned(i, "createSession", arg, "f.logFetching")
                            EXCEPT !.session = Len(sessions) + 1])
       \/ /\ Throws(i, Escaped(i, "createSession", arg))
          /\ UNCHANGED sessions
    /\ UNCHANGED <<example, activities, requests, sinkItems>>

finance_logFetching(i) ==
    logActivity(i, "f.logFetching", "MESSAGE", "Fetching financial news", "f.fetchFinancialNews")

\* finance_fetchFinancialNews fetching again when the fetch has thrown
finance_fetchFinancialNews_retries(i) ==
    /\ inv[i].pc = "f.fetchFinancialNews"
    /\ \/ Succeeds(i, Returned(i, "fetchFinancialNews", EmptyObj, "f.logFound"))
       \/ Throws(i, [inv[i] EXCEPT !.calls = Append(@, Call("fetchFinancialNews", EmptyObj, FALSE))])
    /\ UNCHANGED <<example, activities, sessions, requests, sinkItems>>

finance_fetchFinancialNews(i) ==
    /\ inv[i].pc = "f.fetchFinancialNews"
    /\ \/ Succeeds(i, Returned(i, "fetchFinancialNews", EmptyObj, "f.logFound"))
       \/ Throws(i, Caught(i, "fetchFinancialNews", EmptyObj))
    /\ UNCHANGED <<example, activities, sessions, requests, sinkItems>>

finance_logFound(i) ==
    logActivity(i, "f.logFound", "MESSAGE", "Found articles", "f.pickTopArticles")

finance_pickTopArticles(i) ==
    /\ inv[i].pc = "f.pickTopArticles"
    /\ \/ \E topArticles \in ArticleLists :
            Succeeds(i, [Returned(i, "pickTopArticles", EmptyObj, "f.logSelected")
                            EXCEPT !.articles = topArticles])
       \/ Throws(i, Caught(i, "pickTopArticles", EmptyObj))
    /\ UNCHANGED <<example, activities, sessions, requests, sinkItems>>

finance_logSelected(i) ==
    logActivity(i, "f.logSelected", "MESSAGE", "Selected articles", "f.logStateUpdated")

finance_logStateUpdated(i) ==
    logActivity(i, "f.logStateUpdated", "STATE_UPDATED",
                "Updated session state with selected articles", "f.updateState")

finance_updateState(i) ==
    /\ inv[i].pc = "f.updateState"
    /\ LET arg == [state |-> [articles |-> inv[i].articles]] IN
       \/ /\ sessions' = UpdateSession(inv[i].session, arg)
          /\ Succeeds(i, Returned(i, "updateSession", arg, "f.createMany"))
       \/ /\ Throws(i, Caught(i, "updateSession", arg))
          /\ UNCHANGED sessions
    /\ UNCHANGED <<example, activities, requests, sinkItems>>

finance_createMany(i) ==
    /\ inv[i].pc = "f.createMany"
    /\ LET arg == [items |-> NewsItems(inv[i].articles)] IN
       \/ /\ sinkItems' = CreateMany(arg.items)
          /\ Succeeds(i, Returned(i, "createMany", arg, "f.logCreated"))
       \/ /\ Throws(i, Caught(i, "createMany", arg))
          /\ UNCHANGED sinkItems
    /\ UNCHANGED <<example, activities, sessions, requests>>

finance_logCreated(i) ==
    logActivity(i, "f.logCreated", "SINK_ITEM_CREATED", "Created news items in sink",
                "f.updateCompleted")

finance_updateCompleted(i) ==
    /\ inv[i].pc = "f.updateCompleted"
    /\ LET arg == [status |-> COMPLETED] IN
       \/ /\ sessions' = UpdateSession(inv[i].session, arg)
          /\ Succeeds(i, Return(Returned(i, "updateSession", arg, "done"),
                                [success |-> TRUE, count |-> Len(inv[i].articles),
                                 articles |-> inv[i].articles,
                                 opensink |-> [created |-> NewsItems(inv[i].articles)]]))
       \/ /\ Throws(i, Caught(i, "updateSession", arg))
          /\ UNCHANGED sessions
    /\ UNCHANGED <<example, activities, requests, sinkItems>>

\* the catch block of the finance run: mark the session FAILED; this update
\* is awaited outside any try block
finance_catch(i) ==
    /\ inv[i].pc = "f.catch"
    /\ LET arg == [status |-> FAILED, error_message |-> inv[i].error] IN
       \/ /\ sessions' = UpdateSession(inv[i].session, arg)
          /\ Succeeds(i, Return(Returned(i, "updateSession", arg, "done"),
                                Failure(inv[i].error)))
       \/ /\ Throws(i, Escaped(i, "updateSession", arg))
          /\ UNCHANGED sessions
    /\ UNCHANGED <<example, activities, requests, sinkItems>>

finance(i) ==
    \/ finance_getConfig(i)
    \/ finance_createSession(i)
    \/ finance_logFetching(i)
    \/ finance_fetchFinancialNews(i)
    \/ finance_logFound(i)
    \/ finance_pickTopArticles(i)
    \/ finance_logSelected(i)
    \/ finance_logStateUpdated(i)
    \/ finance_updateState(i)
    \/ finance_createMany(i)
    \/ finance_logCreated(i)
    \/ finance_updateCompleted(i)
    \/ finance_catch(i)

----------------------------------------------------------------------------
(* Marketing example: normalizeTweets *)

MinTextLength == 20

\* a text of lead blanks, body other characters, and trail blanks
Text(lead, body, trail) ==
    [k \in 1..(lead + body + trail) |-> IF k <= lead \/ k > lead + body THEN " " ELSE "x"]

RECURSIVE TrimStart(_)
TrimStart(text) ==
    IF text /= <<>> /\ Head(text) = " " THEN TrimStart(Tail(text)) ELSE text

RECURSIVE TrimEnd(_)
TrimEnd(text) ==
    IF text /= <<>> /\ text[Len(text)] = " " THEN TrimEnd(SubSeq(text, 1, Len(text) - 1)) ELSE text

\* text.trim()
Trim(text) == TrimEnd(TrimStart(text))

\* a string where an object may stand: it has none of an object's fields
Str(s) == [str |-> s]

\* t.author?.followers || 0
Followers(t) ==
    IF Has(t, "author") /\ Has(t.author, "followers") THEN t.author.followers ELSE 0

\* t.author?.userName || 'unknown'
UserName(t) ==
    IF Has(t, "author") /\ Has(t.author, "userName") /\ t.author.userName /= ""
    THEN t.author.userName ELSE "unknown"

\* KeepTweet measuring the text as it is, blanks at its ends included
KeepTweet_untrimmed(t, minAuthorFollowers) ==
    /\ ~(Has(t, "isRetweet") /\ t.isRetweet)
    /\ ~(~Has(t, "text") \/ t.text = <<>> \/ Len(t.text) < MinTextLength)
    /\ Has(t, "type") /\ t.type = "tweet"
    /\ ~(minAuthorFollowers /= 0 /\ Followers(t) < minAuthorFollowers)

\* the filter of normalizeTweets; a field the item lacks reads as undefined
KeepTweet(t, minAuthorFollowers) ==
    /\ ~(Has(t, "isRetweet") /\ t.isRetweet)
    /\ ~(~Has(t, "text") \/ t.text = <<>> \/ Len(Trim(t.text)) < MinTextLength)
    /\ Has(t, "type") /\ t.type = "tweet"
    /\ ~(minAuthorFollowers /= 0 /\ Followers(t) < minAuthorFollowers)

\* the Map of unique tweets after the tweets of filtered from k on were added
\* to the ones kept so far, in insertion order
RECURSIVE Dedupe(_, _, _)
Dedupe(filtered, k, unique) ==
    IF k > Len(filtered) THEN unique
    ELSE Dedupe(filtered, k + 1,
            IF \E j \in 1..Len(unique) : unique[j].id = filtered[k].id
            THEN unique ELSE Append(unique, filtered[k]))

\* the normalized item; likes, retweets, replies, url and created_at are
\* copied the same way and left out
NormalizedTweet(t) ==
    [id |-> t.id, text |-> t.text, author |-> Str(UserName(t)),
     author_followers |-> Followers(t)]

\* normalizeTweets with a Map in which a later tweet takes the place of
\* an earlier one with its id
normalizeTweets_keepsLast(raw, minAuthorFollowers) ==
    LET filtered == SelectSeq(raw, LAMBDA t : KeepTweet(t, minAuthorFollowers))
        last(k) == \A j \in (k + 1)..Len(filtered) : filtered[j].id /= filtered[k].id
        first(k) == \A j \in 1..(k - 1) : filtered[j].id /= filtered[k].id
        slots == { k \in 1..Len(filtered) : first(k) }
        valueAt(k) == filtered[CHOOSE j \in k..Len(filtered) :
                                  filtered[j].id = filtered[k].id /\ last(j)]
        unique == Dedupe([k \in 1..Len(filtered) |-> valueAt(k)], 1, <<>>)
    IN  [k \in 1..Len(unique) |-> NormalizedTweet(unique[k])]

normalizeTweets(raw, minAuthorFollowers) ==
    LET filtered == SelectSeq(raw, LAMBDA t : KeepTweet(t, minAuthorFollowers))
        unique == Dedupe(filtered, 1, <<>>)
    IN  [k \in 1..Len(unique) |-> NormalizedTweet(unique[k])]

\* the filter of the earlier normalizeTweets: no follower threshold
KeepTweet_part_003(t) ==
    /\ ~(Has(t, "isRetweet") /\ t.isRetweet)
    /\ ~(~Has(t, "text") \/ t.text = <<>> \/ Len(Trim(t.text)) < MinTextLength)
    /\ Has(t, "type") /\ t.type = "tweet"

\* the earlier normalizeTweets: filter and map, no Map of unique tweets
normalizeTweets_part_003(raw) ==
    LET filtered == SelectSeq(raw, KeepTweet_part_003)
    IN  [k \in 1..Len(filtered) |-> NormalizedTweet(filtered[k])]

\* the raw tweets the scraper may return
RawTweets ==
    { [id |-> "t1", isRetweet |-> FALSE, text |-> Text(1, MinTextLength, 0),
       type |-> "tweet", author |-> [userName |-> "u", followers |-> 500]],
      [id |-> "t2", isRetweet |-> TRUE, text |-> Text(0, MinTextLength, 0),
       type |-> "tweet", author |-> [userName |-> "u", followers |-> 500]] }

RawTweetLists == SeqsUpTo(RawTweets, MaxTweets)

----------------------------------------------------------------------------
(* Marketing example: POST /agent/run *)

MissingFields ==
    {{}} \cup { {f} : f \in {"companyName", "companyDescription", "founderName", "founderContext"} }

\* the sink id a category may be given; each category has its own
SinkId(c) == "sink-" \o c

\* config.sinks: any of the four ids may be left empty
SinkConfigs ==
    { [c \in Categories |-> IF c \in S THEN SinkId(c) ELSE ""] : S \in SUBSET Categories }

\* the configurations the store may return: an absent field is not in the
\* record's domain
MarketingConfigs ==
    { Spread(Spread(
        [enabled |-> b, maxItems |-> 200, companyWebsite |-> "w",
         companyName |-> IF "companyName" \in m THEN "" ELSE "c",
         companyDescription |-> IF "companyDescription" \in m THEN "" ELSE "d",
         founderName |-> IF "founderName" \in m THEN "" ELSE "f",
         founderContext |-> IF "founderContext" \in m THEN "" ELSE "x"],
        k), sk) :
        b \in BOOLEAN, m \in MissingFields,
        k \in { EmptyObj, [keywords |-> <<>>], [keywords |-> <<"ai agents">>] },
        sk \in { EmptyObj } \cup { [sinks |-> sinks] : sinks \in SinkConfigs } }

\* config.filters?.minAuthorFollowers, 0 when it is not set
MinAuthorFollowers(config) ==
    IF Has(config, "filters") /\ Has(config.filters, "minAuthorFollowers")
    THEN config.filters.minAuthorFollowers ELSE 0

NoKeywords ==
    [success |-> FALSE, reason |-> "No keywords configured. Set keywords in the OpenSink agent configuration."]
MissingRequired ==
    [success |-> FALSE, reason |-> "Missing required config fields: companyName, companyDescription, founderName, founderContext"]
NoSinks ==
    [success |-> FALSE, reason |-> "No sink IDs configured. Set at least one sink ID in the OpenSink agent configuration."]

\* ConfigCheck without the check of the sink ids
ConfigCheck_noSinkCheck(config) ==
    IF ~config.enabled THEN Disabled
    ELSE IF ~Has(config, "keywords") \/ Len(config.keywords) = 0 THEN NoKeywords
    ELSE IF config.companyName = "" \/ config.companyDescription = ""
            \/ config.founderName = "" \/ config.founderContext = "" THEN MissingRequired
    ELSE EmptyObj

\* ConfigCheck without the check of enabled
ConfigCheck_ignoresEnabled(config) ==
    IF ~Has(config, "keywords") \/ Len(config.keywords) = 0 THEN NoKeywords
    ELSE IF config.companyName = "" \/ config.companyDescription = ""
            \/ config.founderName = "" \/ config.founderContext = "" THEN MissingRequired
    ELSE IF ~Has(config, "sinks") \/ \A c \in Categories : config.sinks[c] = "" THEN NoSinks
    ELSE EmptyObj

\* the checks of the configuration before the session is created: the value
\* returned, or EmptyObj when the run goes on
ConfigCheck(config) ==
    IF ~config.enabled THEN Disabled
    ELSE IF ~Has(config, "keywords") \/ Len(config.keywords) = 0 THEN NoKeywords
    ELSE IF config.companyName = "" \/ config.companyDescription = ""
            \/ config.founderName = "" \/ config.founderContext = "" THEN MissingRequired
    ELSE IF ~Has(config, "sinks") \/ \A c \in Categories : config.sinks[c] = "" THEN NoSinks
    ELSE EmptyObj

\* what one analysis call of category c may return
ItemLists(c) == { [k \in 1..n |-> [category |-> c, n |-> k]] : n \in 0..MaxItems }

\* the sink items written for category c
CategoryItems(config, analysis, c) ==
    [k \in 1..Len(analysis[c]) |->
        [sink_id |-> config.sinks[c], title |-> analysis[c][k].category,
         fields |-> [n |-> analysis[c][k].n]]]

\* the category stored next, from position k of CategoryOrder on: the first
\* with items and a sink id; "m.logReport" when there is none
RECURSIVE StoreFrom(_, _, _)
StoreFrom(config, analysis, k) ==
    IF k > Len(CategoryOrder) THEN "m.logReport"
    ELSE IF Len(analysis[CategoryOrder[k]]) > 0 /\ config.sinks[CategoryOrder[k]] /= ""
         THEN "m.create." \o CategoryOrder[k]
         ELSE StoreFrom(config, analysis, k + 1)

Stats(r) ==
    [tweetsScraped |-> Len(r.rawTweets), tweetsAnalyzed |-> Len(r.tweets),
     commentOpportunities |-> Len(r.analysis["opportunities"]),
     trends |-> Len(r.analysis["trends"]),
     newTools |-> Len(r.analysis["tools"]),
     tutorialIdeas |-> Len(r.analysis["tutorials"])]

\* formatTelegramMessage: the section headers of the digest
formatTelegramMessage(analysis) ==
    <<"MARKETING INTEL">>
    \o (IF Len(analysis["opportunities"]) > 0 THEN <<"TARGET COMMENT OPPORTUNITIES">> ELSE <<>>)
    \o (IF Len(analysis["trends"]) > 0 THEN <<"TRENDS">> ELSE <<>>)
    \o (IF Len(analysis["tools"]) > 0 THEN <<"NEW TOOLS & COMPANIES">> ELSE <<>>)
    \o (IF Len(analysis["tutorials"]) > 0 THEN <<"TUTORIAL IDEAS">> ELSE <<>>)
    \o <<"SUMMARY">>

routes_marketing ==
    /\ example = "marketing"
    /\ \E i \in Slots : inv[i].pc = "idle"
    /\ budget.fresh > 0
    /\ budget' = [budget EXCEPT !.fresh = @ - 1]
    /\ inv' = [inv EXCEPT ![FirstFree] = [Idle EXCEPT !.pc = "m.getConfig"]]
    /\ UNCHANGED <<example, activities, sessions, requests, sinkItems>>

marketing_getConfig(i) ==
    /\ inv[i].pc = "m.getConfig"
    /\ \/ \E config \in MarketingConfigs :
            Succeeds(i, IF ConfigCheck(config) /= EmptyObj
                        THEN Return([Returned(i, "getActiveForAgent", EmptyObj, "done")
                                        EXCEPT !.config = config],
                                    ConfigCheck(config))
                        ELSE [Returned(i, "getActiveForAgent", EmptyObj, "m.createSession")
                                EXCEPT !.config = config])
       \/ Throws(i, Escaped(i, "getActiveForAgent", EmptyObj))
    /\ UNCHANGED <<example, activities, sessions, requests, sinkItems>>

marketing_createSession(i) ==
    /\ inv[i].pc = "m.createSession"
    /\ LET arg == [status |-> RUNNING, state |-> EmptyObj] IN
       \/ /\ sessions' = CreateSession(arg.status, arg.state)
          /\ Succeeds(i, [Returned(i, "createSession", arg, "m.logScraping")
                            EXCEPT !.session = Len(sessions) + 1])
       \/ /\ Throws(i, Escaped(i, "createSession", arg))
          /\ UNCHANGED sessions
    /\ UNCHANGED <<example, activities, requests, sinkItems>>

\* agentSessions.update inside the try block of the marketing run
marketing_update(i, pc, arg, next) ==
    /\ inv[i].pc = pc
    /\ \/ /\ sessions' = UpdateSession(inv[i].session, arg)
          /\ Succeeds(i, Returned(i, "updateSession", arg, next))
       \/ /\ Throws(i, Caught(i, "updateSession", arg))
          /\ UNCHANGED sessions
    /\ UNCHANGED <<example, activities, requests, sinkItems>>

marketing_logScraping(i) ==
    logActivity(i, "m.logScraping", "MESSAGE", "Scraping Twitter via Apify", "m.updateScraping")

marketing_updateScraping(i) ==
    marketing_update(i, "m.updateScraping",
        [state |-> [phase |-> "scraping", keywords |-> inv[i].config.keywords,
                    maxItems |-> inv[i].config.maxItems]],
        "m.actorCall")

\* scrapeTweets: the actor run
marketing_actorCall(i) ==
    /\ inv[i].pc = "m.actorCall"
    /\ \/ Succeeds(i, Returned(i, "actorCall", EmptyObj, "m.listItems"))
       \/ Throws(i, Caught(i, "actorCall", EmptyObj))
    /\ UNCHANGED <<example, activities, sessions, requests, sinkItems>>

\* scrapeTweets: the dataset is read; normalizeTweets runs on it
marketing_listItems(i) ==
    /\ inv[i].pc = "m.listItems"
    /\ \/ \E rawTweets \in RawTweetLists :
            Succeeds(i, [Returned(i, "listItems", EmptyObj, "m.logScraped")
                            EXCEPT !.rawTweets = rawTweets,
                                   !.tweets = normalizeTweets(rawTweets, MinAuthorFollowers(inv[i].config))])
       \/ Throws(i, Caught(i, "listItems", EmptyObj))
    /\ UNCHANGED <<example, activities, sessions, requests, sinkItems>>

marketing_logScraped(i) ==
    logActivity(i, "m.logScraped", "MESSAGE", "Scraped raw tweets",
                IF Len(inv[i].tweets) = 0 THEN "m.updateNoTweets" ELSE "m.updateAnalyzing")

\* marketing_updateNoTweets recording the reason without the status
marketing_updateNoTweets_noStatus(i) ==
    /\ inv[i].pc = "m.updateNoTweets"
    /\ LET arg == [state |-> [phase |-> "completed", reason |-> "no_tweets_found"]] IN
       \/ /\ sessions' = UpdateSession(inv[i].session, arg)
          /\ Succeeds(i, Return(Returned(i, "updateSession", arg, "done"),
                                [success |-> TRUE,
                                 reason |-> "No relevant tweets found for the given keywords."]))
       \/ /\ Throws(i, Caught(i, "updateSession", arg))
          /\ UNCHANGED sessions
    /\ UNCHANGED <<example, activities, requests, sinkItems>>

marketing_updateNoTweets(i) ==
    /\ inv[i].pc = "m.updateNoTweets"
    /\ LET arg == [status |-> COMPLETED,
                   state |-> [phase |-> "completed", reason |-> "no_tweets_found"]] IN
       \/ /\ sessions' = UpdateSession(inv[i].session, arg)
          /\ Succeeds(i, Return(Returned(i, "updateSession", arg, "done"),
                                [success |-> TRUE,
                                 reason |-> "No relevant tweets found for the given keywords."]))
       \/ /\ Throws(i, Caught(i, "updateSession", arg))
          /\ UNCHANGED sessions
    /\ UNCHANGED <<example, activities, requests, sinkItems>>

marketing_updateAnalyzing(i) ==
    marketing_update(i, "m.updateAnalyzing",
        [state |-> [phase |-> "analyzing", tweetsToAnalyze |-> Len(inv[i].tweets)]],
        "m.logAnalyzing")

\* marketing_logAnalyzing issuing the analysis of every category
marketing_logAnalyzing_allCategories(i) ==
    /\ inv[i].pc = "m.logAnalyzing"
    /\ LET arg == [session_id |-> inv[i].session, type |-> "MESSAGE",
                   message |-> "Analyzing tweets"]
           issued == Categories IN
       \/ /\ activities' = CreateActivity(arg.session_id, arg.type, arg.message)
          /\ Succeeds(i, [Returned(i, "createActivity", arg, "m.analyze")
                            EXCEPT !.pending = issued])
       \/ /\ Throws(i, [inv[i] EXCEPT !.pc = "m.analyze", !.pending = issued,
                                      !.calls = Append(@, Call("createActivity", arg, FALSE))])
          /\ UNCHANGED activities
    /\ UNCHANGED <<example, sessions, requests, sinkItems>>

\* the activity is logged, then analyzeTwitterData issues one call for each
\* category with a sink id, all before the first of them is awaited
marketing_logAnalyzing(i) ==
    /\ inv[i].pc = "m.logAnalyzing"
    /\ LET arg == [session_id |-> inv[i].session, type |-> "MESSAGE",
                   message |-> "Analyzing tweets"]
           issued == { c \in Categories : inv[i].config.sinks[c] /= "" } IN
       \/ /\ activities' = CreateActivity(arg.session_id, arg.type, arg.message)
          /\ Succeeds(i, [Returned(i, "createActivity", arg, "m.analyze")
                            EXCEPT !.pending = issued])
       \/ /\ Throws(i, [inv[i] EXCEPT !.pc = "m.analyze", !.pending = issued,
                                      !.calls = Append(@, Call("createActivity", arg, FALSE))])
          /\ UNCHANGED activities
    /\ UNCHANGED <<example, sessions, requests, sinkItems>>

\* Promise.all: one of the pending analysis calls settles; the first that
\* throws rejects the whole, the last that returns resolves it
marketing_analyze(i) ==
    /\ inv[i].pc = "m.analyze"
    /\ \E c \in inv[i].pending :
         \/ \E items \in ItemLists(c) :
              Succeeds(i, [Returned(i, "analyze", [category |-> c],
                                    IF inv[i].pending = {c} THEN "m.logAnalysis" ELSE "m.analyze")
                             EXCEPT !.pending = @ \ {c},
                                    !.analysis = [@ EXCEPT ![c] = items]])
         \/ Throws(i, Caught(i, "analyze", [category |-> c]))
    /\ UNCHANGED <<example, activities, sessions, requests, sinkItems>>

marketing_logAnalysis(i) ==
    logActivity(i, "m.logAnalysis", "MESSAGE", "Analysis complete", "m.updateStoring")

marketing_updateStoring(i) ==
    marketing_update(i, "m.updateStoring",
        [state |-> Spread([phase |-> "storing_results"],
                          [f \in DOMAIN Stats(inv[i]) \ {"tweetsScraped"} |-> Stats(inv[i])[f]])],
        "m.logStateUpdated")

marketing_logStateUpdated(i) ==
    logActivity(i, "m.logStateUpdated", "STATE_UPDATED",
                "Updated session state with analysis counts",
                StoreFrom(inv[i].config, inv[i].analysis, 1))

\* the sink items of category CategoryOrder[k] are written
marketing_createMany(i, k) ==
    /\ inv[i].pc = "m.create." \o CategoryOrder[k]
    /\ LET arg == [items |-> CategoryItems(inv[i].config, inv[i].analysis, CategoryOrder[k])] IN
       \/ /\ sinkItems' = CreateMany(arg.items)
          /\ Succeeds(i, Returned(i, "createMany", arg, "m.log." \o CategoryOrder[k]))
       \/ /\ Throws(i, Caught(i, "createMany", arg))
          /\ UNCHANGED sinkItems
    /\ UNCHANGED <<example, activities, sessions, requests>>

marketing_logCreated(i, k) ==
    logActivity(i, "m.log." \o CategoryOrder[k], "SINK_ITEM_CREATED", "Created items",
                StoreFrom(inv[i].config, inv[i].analysis, k + 1))

marketing_logReport(i) ==
    logActivity(i, "m.logReport", "MESSAGE", "Generated Telegram-formatted report",
                "m.updateCompleted")

marketing_updateCompleted(i) ==
    /\ inv[i].pc = "m.updateCompleted"
    /\ LET arg == [status |-> COMPLETED,
                   state |-> Spread([phase |-> "completed"], Stats(inv[i]))] IN
       \/ /\ sessions' = UpdateSession(inv[i].session, arg)
          /\ Succeeds(i, Return(Returned(i, "updateSession", arg, "done"),
                                [success |-> TRUE, stats |-> Stats(inv[i]),
                                 analysis |-> inv[i].analysis,
                                 telegram_message |-> formatTelegramMessage(inv[i].analysis)]))
       \/ /\ Throws(i, Caught(i, "updateSession", arg))
          /\ UNCHANGED sessions
    /\ UNCHANGED <<example, activities, requests, sinkItems>>

\* the catch block of the marketing run: mark the session FAILED; this
\* update is awaited outside any try block
marketing_catch(i) ==
    /\ inv[i].pc = "m.catch"
    /\ LET arg == [status |-> FAILED, error_message |-> inv[i].error] IN
       \/ /\ sessions' = UpdateSession(inv[i].session, arg)
          /\ Succeeds(i, Return(Returned(i, "updateSession", arg, "done"),
                                Failure(inv[i].error)))
       \/ /\ Throws(i, Escaped(i, "updateSession", arg))
          /\ UNCHANGED sessions
    /\ UNCHANGED <<example, activities, requests, sinkItems>>

marketing(i) ==
    \/ marketing_getConfig(i)
    \/ marketing_createSession(i)
    \/ marketing_logScraping(i)
    \/ marketing_updateScraping(i)
    \/ marketing_actorCall(i)
    \/ marketing_listItems(i)
    \/ marketing_logScraped(i)
    \/ marketing_updateNoTweets(i)
    \/ marketing_updateAnalyzing(i)
    \/ marketing_logAnalyzing(i)
    \/ marketing_analyze(i)
    \/ marketing_logAnalysis(i)
    \/ marketing_updateStoring(i)
    \/ marketing_logStateUpdated(i)
    \/ \E k \in 1..Len(CategoryOrder) : marketing_createMany(i, k)
    \/ \E k \in 1..Len(CategoryOrder) : marketing_logCreated(i, k)
    \/ marketing_logReport(i)
    \/ marketing_updateCompleted(i)
    \/ marketing_catch(i)

----------------------------------------------------------------------------

Next ==
    \/ routes_trading
    \/ routes_finance
    \/ routes_marketing
    \/ \E i \in Slots : startNewWorkflow(i)
    \/ \E i \in Slots : handleTradeExecution(i)
    \/ \E i \in Slots : finance(i)
    \/ \E i \in Slots : marketing(i)
    \/ \E i \in Slots : Reply(i)
    \/ \E r \in 1..MaxFresh : HumanResponds(r)

Spec == Init /\ [][Next]_vars

----------------------------------------------------------------------------
(* The approval gate on its own: the stores as a fresh run and a human     *)
(* left them, with any proposed trades and any recorded response, and one  *)
(* continuation call for them.                                             *)

\* proposals in which a trade may occur twice and in any order
ProposalLists == SeqsUpTo({ Trade(1), Trade(2) }, MaxTrades)

\* recorded responses: any keys, also one beyond the proposals, each with an
\* approved flag or none
ResponseObjects ==
    UNION { [K -> { [approved |-> TRUE], [approved |-> FALSE], EmptyObj }] :
            K \in SUBSET { TradeKey(k) : k \in 0..MaxTrades } }

InitApproval ==
    /\ example = "trading"
    /\ \E proposedTrades \in ProposalLists :
         sessions = << [status |-> RUNNING,
                        state |-> [phase |-> "awaiting_approval", articles |-> <<>>,
                                   proposedTrades |-> proposedTrades],
                        error_message |-> ""] >>
    /\ \E response \in ResponseObjects \cup {Null} :
         requests = << [session_id |-> 1, key |-> "trade_approval", response |-> response] >>
    /\ sinkItems = <<>>
    /\ activities = <<>>
    /\ inv = [i \in Slots |->
                IF i = 1 THEN [Idle EXCEPT !.pc = "handleTradeExecution",
                                           !.sessionId = 1, !.requestId = 1]
                ELSE Idle]
    /\ budget = [fresh |-> 0, continuations |-> 0, faults |-> MaxFaults]

NextApproval ==
    \/ \E i \in Slots : handleTradeExecution(i)
    \/ \E i \in Slots : Reply(i)

SpecApproval == InitApproval /\ [][NextApproval]_vars

----------------------------------------------------------------------------
(* The service invoked again after a run that failed: the stores as that   *)
(* run left them, no invocation in flight.  The finance run failed at      *)
(* fetchFinancialNews and the marketing run at its first session update,   *)
(* each after its first activity write had failed; the trading run failed  *)
(* at the createMany of its news items, so its input request exists.       *)

RerunContinuations == 1   \* continuation calls after the failed run
RerunFaults == 1          \* external calls that throw after the failed run

FailedRunSessions ==
    IF example = "finance"
    THEN { << [status |-> FAILED, state |-> EmptyObj, error_message |-> "fetchFinancialNews"] >> }
    ELSE IF example = "marketing"
    THEN { << [status |-> FAILED, state |-> EmptyObj, error_message |-> "updateSession"] >> }
    ELSE { << [status |-> FAILED,
               state |-> [phase |-> "awaiting_approval", articles |-> <<>>,
                          proposedTrades |-> [k \in 1..MaxTrades |-> Trade(k)]],
               error_message |-> "createMany"] >> }

InitRerun ==
    /\ example \in Examples
    /\ sessions \in FailedRunSessions
    /\ requests = IF example = "trading"
                  THEN << [session_id |-> 1, key |-> "trade_approval", response |-> Null] >>
                  ELSE <<>>
    /\ sinkItems = <<>>
    /\ activities = <<>>
    /\ inv = [i \in Slots |-> Idle]
    /\ budget = [fresh |-> MaxFresh, continuations |-> RerunContinuations,
                 faults |-> RerunFaults]

SpecRerun == InitRerun /\ [][Next]_vars

----------------------------------------------------------------------------
(* Two fresh runs that may overlap, in the finance and in the trading      *)
(* example.  No continuation call is made, so no response is ever read and *)
(* the human's answer is left out.                                         *)

OverlapFresh == 2    \* fresh POST /agent/run requests
OverlapFaults == 1   \* external calls that throw

InitOverlap ==
    /\ example \in {"finance", "trading"}
    /\ sessions = <<>>
    /\ requests = <<>>
    /\ sinkItems = <<>>
    /\ activities = <<>>
    /\ inv = [i \in Slots |-> Idle]
    /\ budget = [fresh |-> OverlapFresh, continuations |-> 0, faults |-> OverlapFaults]

NextOverlap ==
    \/ routes_trading
    \/ routes_finance
    \/ \E i \in Slots : startNewWorkflow(i)
    \/ \E i \in Slots : finance(i)
    \/ \E i \in Slots : Reply(i)

SpecOverlap == InitOverlap /\ [][NextOverlap]_vars

----------------------------------------------------------------------------
(* normalizeTweets on its own: any short list of raw items, each version   *)
(* of the function, applied once and then once more to what it returned.   *)

MaxRaw == 2   \* raw items in the list

\* raw items: two ids; a retweet or not; a text that is absent, too short
\* once trimmed, or long enough with and without blanks around it; two type
\* tags; an author that is absent, has no follower count, few or many
RawItemTexts ==
    { Text(1, MinTextLength - 1, 1), Text(0, MinTextLength, 0), Text(1, MinTextLength, 1) }

RawItemAuthors ==
    { EmptyObj, [author |-> [userName |-> "u"]],
      [author |-> [userName |-> "u", followers |-> 100]],
      [author |-> [userName |-> "u", followers |-> 500]] }

RawItems ==
    { Spread(Spread([id |-> id, isRetweet |-> rt, type |-> type], text), author) :
        id \in {"t1", "t2"}, rt \in BOOLEAN, type \in {"tweet", "reply"},
        text \in { EmptyObj } \cup { [text |-> x] : x \in RawItemTexts },
        author \in RawItemAuthors }

\* the configurations that matter to normalizeTweets, by the file holding it:
\* the earlier version takes no threshold
NormalizeConfigs ==
    { [source |-> "part_003"] }
    \cup { Spread([source |-> src], f) :
             src \in {"index.ts", "part_002"},
             f \in { EmptyObj, [filters |-> EmptyObj],
                     [filters |-> [minAuthorFollowers |-> 200]] } }

\* normalizeTweets as the file config.source holds it
normalizeTweetsOf(config, raw) ==
    IF config.source = "part_003" THEN normalizeTweets_part_003(raw)
    ELSE normalizeTweets(raw, MinAuthorFollowers(config))

InitNormalize ==
    /\ example = "marketing"
    /\ sessions = <<>>
    /\ requests = <<>>
    /\ sinkItems = <<>>
    /\ activities = <<>>
    /\ \E raw \in SeqsUpTo(RawItems, MaxRaw), config \in NormalizeConfigs :
         inv = [i \in Slots |->
                  IF i = 1 THEN [Idle EXCEPT !.pc = "n.normalize", !.config = config,
                                             !.rawTweets = raw]
                  ELSE Idle]
    /\ budget = [fresh |-> 0, continuations |-> 0, faults |-> 0]

\* normalizeTweets(rawTweets)
Normalize(i) ==
    /\ inv[i].pc = "n.normalize"
    /\ inv' = [inv EXCEPT ![i].pc = "n.normalized",
                          ![i].tweets = normalizeTweetsOf(inv[i].config, inv[i].rawTweets)]
    /\ UNCHANGED <<example, sessions, requests, sinkItems, activities, budget>>

\* normalizeTweets applied to the list it returned, which takes the place of
\* the raw list
NormalizeAgain(i) ==
    /\ inv[i].pc = "n.normalized"
    /\ inv' = [inv EXCEPT ![i].pc = "n.again",
                          ![i].rawTweets = inv[i].tweets,
                          ![i].tweets = normalizeTweetsOf(inv[i].config, inv[i].tweets)]
    /\ UNCHANGED <<example, sessions, requests, sinkItems, activities, budget>>

NextNormalize ==
    \/ \E i \in Slots : Normalize(i)
    \/ \E i \in Slots : NormalizeAgain(i)

SpecNormalize == InitNormalize /\ [][NextNormalize]_vars

----------------------------------------------------------------------------
(* The extraction functions on their own: the message content the model    *)
(* returned, what the function makes of it, and the caller's first read of *)
(* the collections, inside the try block of a run whose session exists.    *)

ExtractFaults == 1   \* external calls that throw

\* what a read yields: undefined, or a value
Undefined == [undefined |-> TRUE]
Value(v) == [value |-> v]

\* obj.k
Get(obj, k) == IF Has(obj, k) THEN Value(obj[k]) ELSE Undefined

\* a JSON text is kept with the value it denotes; JSON.parse yields it
JSONText(value) == [json |-> value]
JSONParse(text) == text.json

AnalysisKeys == {"comment_opportunities", "trends", "new_tools", "tutorial_ideas"}

KeyedExtractions ==
    {"pickTopArticles", "proposeTrades", "analyzeCommentOpportunities",
     "analyzeTrends", "analyzeNewTools", "analyzeTutorialIdeas"}

ExtractionFunctions == KeyedExtractions \cup {"analyzeTwitterData"}

\* the key of the parsed object the function returns
ExtractionKey(fn) ==
    IF fn = "pickTopArticles" THEN "articles"
    ELSE IF fn = "proposeTrades" THEN "trades"
    ELSE "items"

\* the text parsed when the content is empty or absent
ExtractionFallback(fn) ==
    IF fn = "analyzeTwitterData" THEN JSONText(EmptyObj)
    ELSE JSONText([k \in {ExtractionKey(fn)} |-> <<>>])

\* JSON.parse(content || fallback), then the value the function returns
Extract(fn, content) ==
    LET result == JSONParse(IF content = Null \/ content = Str("")
                            THEN ExtractionFallback(fn) ELSE content)
    IN  IF fn = "analyzeTwitterData" THEN Value(result) ELSE Get(result, ExtractionKey(fn))

\* the lists the model may answer to fn with
AnswerLists(fn) ==
    IF fn = "pickTopArticles" THEN ArticleLists
    ELSE IF fn = "proposeTrades" THEN TradeLists
    ELSE IF fn = "analyzeCommentOpportunities" THEN ItemLists("opportunities")
    ELSE IF fn = "analyzeTrends" THEN ItemLists("trends")
    ELSE IF fn = "analyzeNewTools" THEN ItemLists("tools")
    ELSE ItemLists("tutorials")

\* the contents the model may return to fn: none, the empty string, or a
\* text that meets the function's response schema
Contents(fn) ==
    {Null, Str("")}
    \cup IF fn = "analyzeTwitterData"
         THEN { JSONText(Spread([run_summary |-> "s"], lists)) :
                  lists \in [AnalysisKeys -> ItemLists("opportunities")] }
         ELSE { JSONText([k \in {ExtractionKey(fn)} |-> list]) : list \in AnswerLists(fn) }

\* the collections of the returned value whose length the caller reads
CollectionsRead(fn, extracted) ==
    IF fn = "analyzeTwitterData" THEN { Get(extracted.value, k) : k \in AnalysisKeys }
    ELSE {extracted}

\* the example a function belongs to
ExampleOf(fn) ==
    IF fn = "pickTopArticles" THEN {"finance", "trading"}
    ELSE IF fn = "proposeTrades" THEN {"trading"}
    ELSE {"marketing"}

InitExtract ==
    /\ \E fn \in ExtractionFunctions :
         /\ example \in ExampleOf(fn)
         /\ \E content \in Contents(fn) :
              inv = [i \in Slots |->
                       IF i = 1 THEN [Idle EXCEPT !.pc = "x.call", !.config = [fn |-> fn],
                                                  !.content = content, !.session = 1]
                       ELSE Idle]
    /\ sessions = << [status |-> RUNNING, state |-> EmptyObj, error_message |-> ""] >>
    /\ requests = <<>>
    /\ sinkItems = <<>>
    /\ activities = <<>>
    /\ budget = [fresh |-> 0, continuations |-> 0, faults |-> ExtractFaults]

\* the extraction function returns
ExtractionReturns(i) ==
    /\ inv[i].pc = "x.call"
    /\ inv' = [inv EXCEPT ![i].pc = "x.read",
                          ![i].extracted = Extract(inv[i].config.fn, inv[i].content)]
    /\ UNCHANGED <<example, sessions, requests, sinkItems, activities, budget>>

\* the caller reads .length of each collection: a TypeError when one of them
\* is undefined, caught by the try block the call stands in
CallerReads(i) ==
    /\ inv[i].pc = "x.read"
    /\ inv' = [inv EXCEPT ![i] =
                 IF Undefined \in CollectionsRead(inv[i].config.fn, inv[i].extracted)
                 THEN [inv[i] EXCEPT !.pc = CatchBlock, !.error = "TypeError"]
                 ELSE [inv[i] EXCEPT !.pc = "x.proceeds"]]
    /\ UNCHANGED <<example, sessions, requests, sinkItems, activities, budget>>

NextExtract ==
    \/ \E i \in Slots : ExtractionReturns(i)
    \/ \E i \in Slots : CallerReads(i)
    \/ \E i \in Slots : marketing_catch(i)
    \/ \E i \in Slots : Reply(i)

SpecExtract == InitExtract /\ [][NextExtract]_vars

----------------------------------------------------------------------------
(* Two trading sessions, each left awaiting approval by its own fresh run  *)
(* with its own input request, any recorded answers, and continuation      *)
(* calls carrying any pair of ids.                                         *)

CorrelateContinuations == 1   \* continuation calls
CorrelateFaults == 1          \* external calls that throw

AwaitingSession(proposedTrades) ==
    [status |-> RUNNING,
     state |-> [phase |-> "awaiting_approval", articles |-> <<>>,
                proposedTrades |-> proposedTrades],
     error_message |-> ""]

InitCorrelate ==
    /\ example = "trading"
    /\ \E p1, p2 \in TradeLists :
         sessions = << AwaitingSession(p1), AwaitingSession(p2) >>
    /\ \E r1, r2 \in Responses \cup {Null} :
         requests = << [session_id |-> 1, key |-> "trade_approval", response |-> r1],
                       [session_id |-> 2, key |-> "trade_approval", response |-> r2] >>
    /\ sinkItems = <<>>
    /\ activities = <<>>
    /\ inv = [i \in Slots |-> Idle]
    /\ budget = [fresh |-> 0, continuations |-> CorrelateContinuations,
                 faults |-> CorrelateFaults]

NextCorrelate ==
    \/ routes_trading
    \/ \E i \in Slots : handleTradeExecution(i)
    \/ \E i \in Slots : Reply(i)

SpecCorrelate == InitCorrelate /\ [][NextCorrelate]_vars

----------------------------------------------------------------------------
(* normalizeTweets on longer lists of fewer items: tweets that pass the    *)
(* filters and differ in text or followers under the same id, and          *)
(* retweets between them.                                                  *)

MaxDedupeRaw == 3   \* raw items in the list

DedupeItems ==
    { [id |-> id, isRetweet |-> FALSE, type |-> "tweet", text |-> text,
       author |-> [userName |-> "u", followers |-> f]] :
        id \in {"t1", "t2"},
        text \in { Text(0, MinTextLength, 0), Text(1, MinTextLength, 1) },
        f \in {100, 500} }
    \cup { [id |-> id, isRetweet |-> TRUE, type |-> "tweet",
            text |-> Text(0, MinTextLength, 0),
            author |-> [userName |-> "u", followers |-> 500]] : id \in {"t1", "t2"} }

InitDedupe ==
    /\ example = "marketing"
    /\ sessions = <<>>
    /\ requests = <<>>
    /\ sinkItems = <<>>
    /\ activities = <<>>
    /\ \E raw \in SeqsUpTo(DedupeItems, MaxDedupeRaw),
          config \in { c \in NormalizeConfigs : c.source /= "part_003" } :
         inv = [i \in Slots |->
                  IF i = 1 THEN [Idle EXCEPT !.pc = "n.normalize", !.config = config,
                                             !.rawTweets = raw]
                  ELSE Idle]
    /\ budget = [fresh |-> 0, continuations |-> 0, faults |-> 0]

SpecDedupe == InitDedupe /\ [][NextNormalize]_vars

----------------------------------------------------------------------------
(* Progress: every awaited call eventually returns or throws, so an        *)
(* invocation that can take a step eventually takes one.                   *)

SpecLive == Init /\ [][Next]_vars /\ \A i \in Slots : WF_vars(finance(i) \/ marketing(i))

----------------------------------------------------------------------------
(* What the claims speak of *)

\* the invocation is a continuation call of the trading example
IsContinuation(r) ==
    /\ example = "trading"
    /\ r.sessionId \notin {NoHeader, EmptyHeader}
    /\ r.requestId \notin {NoHeader, EmptyHeader}

\* the invocation is a fresh run
IsFresh(r) == r.pc /= "idle" /\ ~IsContinuation(r)

WriteOps == {"createSession", "updateSession", "createInputRequest", "createMany", "createActivity"}

\* the positions in the call log of the calls that satisfy P
CallsWhere(r, P(_)) == { k \in 1..Len(r.calls) : P(r.calls[k]) }

IsWrite(c) == c.op \in WriteOps
IsCreateMany(c) == c.op = "createMany"
IsUpdate(c) == c.op = "updateSession"
IsFailedCall(c) == ~c.ok

\* an update of the session to status st with phase ph
IsUpdateTo(c, st, ph) ==
    /\ c.op = "updateSession"
    /\ Has(c.arg, "status") /\ c.arg.status = st
    /\ Has(c.arg, "state") /\ Has(c.arg.state, "phase") /\ c.arg.state.phase = ph

\* the invocation has read the input request
HasReadRequest(r) ==
    \E k \in 1..Len(r.calls) : r.calls[k].op = "getInputRequest" /\ r.calls[k].ok

\* the positions (from 1) of the proposed trades whose key trade_0, trade_1,
\* ... is in the response with approved = true
ApprovedPositions(allTrades, response) ==
    { k \in 1..Len(allTrades) :
        \E key \in DOMAIN response :
            /\ key = "trade_" \o ToString(k - 1)
            /\ "approved" \in DOMAIN response[key]
            /\ response[key].approved = TRUE }

\* the elements of seq at the positions in P, in the order of seq
RECURSIVE AtPositions(_, _, _)
AtPositions(seq, P, k) ==
    IF k > Len(seq) THEN <<>>
    ELSE (IF k \in P THEN <<seq[k]>> ELSE <<>>) \o AtPositions(seq, P, k + 1)

\* the proposed trades that the response approves, and the others
ApprovedOf(allTrades, response) ==
    AtPositions(allTrades, ApprovedPositions(allTrades, response), 1)
RejectedOf(allTrades, response) ==
    AtPositions(allTrades, (1..Len(allTrades)) \ ApprovedPositions(allTrades, response), 1)

----------------------------------------------------------------------------
(* C1: when the configuration fetched has enabled = false, the run returns *)
(* {success: false, reason: 'Agent is disabled'} and has issued no write   *)
(* to any store: no session, activity, input request or sink item.         *)
C1_DisabledRunWritesNothing ==
    \A i \in Slots :
        (IsFresh(inv[i]) /\ Has(inv[i].config, "enabled") /\ ~inv[i].config.enabled)
        => /\ inv[i].pc = "done"
           /\ inv[i].result = [success |-> FALSE, reason |-> "Agent is disabled"]
           /\ CallsWhere(inv[i], IsWrite) = {}
           /\ inv[i].session = 0

C1_Witness ==
    \E i \in Slots :
        /\ example = "marketing"
        /\ inv[i].pc = "done"
        /\ Has(inv[i].config, "enabled") /\ ~inv[i].config.enabled
        /\ inv[i].result.reason = "Agent is disabled"

(* C2: in handleTradeExecution the approved list is exactly the proposed   *)
(* trades at the positions whose key trade_i is in the response with a     *)
(* true approved flag, the rejected list is exactly the others, every      *)
(* proposed trade is in exactly one of the two, both in proposal order.    *)
C2_ApprovalPartition ==
    \A i \in Slots :
        (IsContinuation(inv[i]) /\ HasReadRequest(inv[i]) /\ inv[i].response /= Null)
        => LET allTrades == AllTrades(inv[i].state) IN
           /\ inv[i].approvedTrades = ApprovedOf(allTrades, inv[i].response)
           /\ inv[i].rejectedTrades = RejectedOf(allTrades, inv[i].response)
           /\ Len(inv[i].approvedTrades) + Len(inv[i].rejectedTrades) = Len(allTrades)

C2_Witness ==
    \E i \in Slots :
        /\ IsContinuation(inv[i]) /\ HasReadRequest(inv[i]) /\ inv[i].response /= Null
        /\ Len(inv[i].approvedTrades) = 1
        /\ Len(inv[i].rejectedTrades) = 1
        /\ inv[i].approvedTrades[1] = AllTrades(inv[i].state)[2]

\* the sink items a step appends
NewItems == SubSeq(sinkItems', Len(sinkItems) + 1, Len(sinkItems'))

\* item is the trades-sink item of trade
ItemOfTrade(item, trade) ==
    /\ item.sink_id = TRADES_SINK_ID
    /\ item.fields.symbol = trade.symbol
    /\ item.fields.action = trade.action
    /\ item.fields.quantity = trade.quantity

\* items holds one trades-sink item per trade of trades, in order
ItemsOfTrades(items, trades) ==
    /\ Len(items) = Len(trades)
    /\ \A k \in 1..Len(trades) : ItemOfTrade(items[k], trades[k])

(* C3: a step that appends trades-sink items is the createMany of one      *)
(* continuation call, and the items appended are exactly one per trade     *)
(* that call read from the session named by its header and that the        *)
(* response it read from its input request approves: nothing is written    *)
(* for a rejected or unanswered trade, and the sink only grows.            *)
C3_OnlyApprovedTradesWritten ==
    [][ /\ Len(sinkItems') >= Len(sinkItems)
        /\ SubSeq(sinkItems', 1, Len(sinkItems)) = sinkItems
        /\ \A i \in Slots :
             (inv[i].pc = "handleTradeExecution" /\ inv'[i].pc = "getInputRequest")
             => inv'[i].state = sessions[inv[i].sessionId].state
        /\ \A i \in Slots :
             (inv[i].pc = "getInputRequest" /\ inv'[i].pc \notin {"getInputRequest", "catch"})
             => inv'[i].response = requests[inv[i].requestId].response
        /\ (\E k \in 1..Len(NewItems) : NewItems[k].sink_id = TRADES_SINK_ID)
           => \E i \in Slots :
                /\ IsContinuation(inv[i]) /\ inv'[i] /= inv[i]
                /\ HasReadRequest(inv[i]) /\ inv[i].response /= Null
                /\ ItemsOfTrades(NewItems,
                                 ApprovedOf(AllTrades(inv[i].state), inv[i].response))
      ]_vars

C3_Witness ==
    \E i \in Slots :
        /\ inv[i].pc = "updateCompleted"
        /\ Len(AllTrades(inv[i].state)) = 2
        /\ ApprovedPositions(AllTrades(inv[i].state), inv[i].response) = {2}
        /\ \E k \in 1..Len(sinkItems) : sinkItems[k].sink_id = TRADES_SINK_ID

(* C4: a continuation call that reads a null response from its input       *)
(* request returns {success: false, reason: 'No response found'} and       *)
(* issues no write to any store; it reads the session and the request and  *)
(* does nothing else.                                                      *)
C4_NullResponseWritesNothing ==
    \A i \in Slots :
        (IsContinuation(inv[i]) /\ HasReadRequest(inv[i]) /\ inv[i].response = Null)
        => /\ inv[i].pc = "done"
           /\ inv[i].result = [success |-> FALSE, reason |-> "No response found"]
           /\ CallsWhere(inv[i], IsWrite) = {}
           /\ Len(inv[i].calls) = 2

C4_Witness ==
    \E i \in Slots :
        /\ IsContinuation(inv[i]) /\ HasReadRequest(inv[i]) /\ inv[i].response = Null
        /\ inv[i].pc = "done"
        /\ requests[inv[i].requestId].response = Null

\* the call is an update to COMPLETED with phase 'rejected'
IsRejectedUpdate(c) == IsUpdateTo(c, COMPLETED, "rejected")

(* C5: a continuation call that reads a non-null response approving no     *)
(* proposed trade issues exactly one update of the session, to COMPLETED   *)
(* with phase 'rejected' and the rejected trades recorded, issues no sink  *)
(* write, and, the update done, returns success: true with status          *)
(* 'rejected'.                                                             *)
C5_NoneApproved ==
    \A i \in Slots :
        (/\ IsContinuation(inv[i]) /\ HasReadRequest(inv[i]) /\ inv[i].response /= Null
         /\ ApprovedPositions(AllTrades(inv[i].state), inv[i].response) = {})
        => /\ inv[i].pc \in {"updateRejected", "catch", "done", "threw"}
           /\ CallsWhere(inv[i], IsCreateMany) = {}
           /\ inv[i].pc /= "updateRejected"
              => /\ Cardinality(CallsWhere(inv[i], IsRejectedUpdate)) = 1
                 /\ \A k \in CallsWhere(inv[i], IsRejectedUpdate) :
                        inv[i].calls[k].arg.state.rejectedTrades = AllTrades(inv[i].state)
           /\ (inv[i].pc = "done" /\ CallsWhere(inv[i], IsFailedCall) = {})
              => /\ Cardinality(CallsWhere(inv[i], IsUpdate)) = 1
                 /\ inv[i].result.success
                 /\ inv[i].result.status = "rejected"
           /\ CallsWhere(inv[i], IsFailedCall) = {} => inv[i].pc \in {"updateRejected", "done"}

C5_Witness ==
    \E i \in Slots :
        /\ IsContinuation(inv[i]) /\ HasReadRequest(inv[i]) /\ inv[i].response /= Null
        /\ Len(AllTrades(inv[i].state)) = 2
        /\ ApprovedPositions(AllTrades(inv[i].state), inv[i].response) = {}
        /\ inv[i].pc = "done" /\ inv[i].result.success
        /\ sessions[inv[i].sessionId].status = COMPLETED
        /\ sessions[inv[i].sessionId].state.phase = "rejected"

\* the continuation call has read a response that approves a proposed trade
ReadAnApproval(r) ==
    /\ IsContinuation(r) /\ HasReadRequest(r) /\ r.response /= Null
    /\ ApprovedPositions(AllTrades(r.state), r.response) /= {}

\* the approved trades as they are reported once executed
ExecutedOf(allTrades, response) ==
    LET approved == ApprovedOf(allTrades, response) IN
    [k \in 1..Len(approved) |-> [symbol |-> approved[k].symbol, action |-> approved[k].action,
                                 quantity |-> approved[k].quantity, reason |-> approved[k].reason,
                                 executedAt |-> "now", status |-> "executed"]]

\* the continuation call has persisted the approved trades and completed the session
PersistedAndCompleted(r) ==
    LET allTrades == AllTrades(r.state)
        last == r.calls[Len(r.calls)] IN
    /\ \E k \in 1..Len(r.calls) :
          /\ r.calls[k].op = "createMany" /\ r.calls[k].ok
          /\ ItemsOfTrades(r.calls[k].arg.items, ApprovedOf(allTrades, r.response))
    /\ Cardinality(CallsWhere(r, IsCreateMany)) = 1
    /\ IsUpdateTo(last, COMPLETED, "completed") /\ last.ok
    /\ last.arg.state.executedTrades = ExecutedOf(allTrades, r.response)
    /\ last.arg.state.rejectedTrades = RejectedOf(allTrades, r.response)

(* C6, as the code has it: a continuation call that reads a response       *)
(* approving at least one trade, and whose calls all succeed, persists the *)
(* approved trades as sink items, moves the session to COMPLETED with      *)
(* phase 'completed', recording the executed and the rejected trades in    *)
(* the session state, and returns success: true, status 'executed', the    *)
(* executed trades and the two counts; the rejected trades themselves are  *)
(* not in the response.                                                    *)
C6_ApprovedExecuted ==
    \A i \in Slots :
        ReadAnApproval(inv[i])
        => /\ inv[i].pc \in {"updateExecuting", "createTrades", "updateCompleted",
                             "catch", "done", "threw"}
           /\ CallsWhere(inv[i], IsFailedCall) = {} => inv[i].pc \notin {"catch", "threw"}
           /\ (inv[i].pc = "done" /\ CallsWhere(inv[i], IsFailedCall) = {})
              => /\ PersistedAndCompleted(inv[i])
                 /\ inv[i].result =
                      [success |-> TRUE, status |-> "executed",
                       executedCount |-> Cardinality(ApprovedPositions(AllTrades(inv[i].state), inv[i].response)),
                       rejectedCount |-> Len(RejectedOf(AllTrades(inv[i].state), inv[i].response)),
                       trades |-> ExecutedOf(AllTrades(inv[i].state), inv[i].response)]

C6_Witness ==
    \E i \in Slots :
        /\ ReadAnApproval(inv[i])
        /\ inv[i].pc = "done" /\ CallsWhere(inv[i], IsFailedCall) = {}
        /\ Len(inv[i].result.trades) = 1
        /\ inv[i].result.rejectedCount = 1

(* C6, as stated: ... and the response returns both the executed set and   *)
(* the rejected set.                                                       *)
C6_Original ==
    \A i \in Slots :
        (ReadAnApproval(inv[i]) /\ inv[i].pc = "done" /\ CallsWhere(inv[i], IsFailedCall) = {})
        => /\ PersistedAndCompleted(inv[i])
           /\ inv[i].result.trades = ExecutedOf(AllTrades(inv[i].state), inv[i].response)
           /\ \E f \in DOMAIN inv[i].result \ {"success", "status", "executedCount", "rejectedCount"} :
                inv[i].result[f] = RejectedOf(AllTrades(inv[i].state), inv[i].response)

\* an awaited call of the invocation threw, other than a best-effort activity log
IsRaised(c) == ~c.ok /\ c.op /= "createActivity"

\* the invocation ended by marking its session FAILED with the error and
\* returning {success: false, reason}
FailedCleanly(r) ==
    LET last == r.calls[Len(r.calls)] IN
    /\ r.pc = "done"
    /\ last.op = "updateSession" /\ last.ok
    /\ last.arg = [status |-> FAILED, error_message |-> r.error]
    /\ r.result = [success |-> FALSE, reason |-> r.error]

(* C7, as stated: a continuation call in which an error is raised marks    *)
(* the session FAILED with the error message and returns {success: false,  *)
(* reason}; it never ends with an exception leaving the handler.           *)
C7_Original ==
    \A i \in Slots :
        (IsContinuation(inv[i]) /\ CallsWhere(inv[i], IsRaised) /= {})
        => /\ inv[i].pc /= "threw"
           /\ inv[i].pc = "done" => FailedCleanly(inv[i])

(* C8, as stated: a fresh run in which an error is raised after the        *)
(* session was created marks that session FAILED with the error message    *)
(* and returns {success: false, reason}; it never ends with an exception   *)
(* leaving the handler.                                                    *)
C8_Original ==
    \A i \in Slots :
        (IsFresh(inv[i]) /\ inv[i].session /= 0 /\ CallsWhere(inv[i], IsRaised) /= {})
        => /\ inv[i].pc /= "threw"
           /\ inv[i].pc = "done" => FailedCleanly(inv[i])

\* the call is an update of the session to COMPLETED
IsCompletedUpdate(c) == c.op = "updateSession" /\ Has(c.arg, "status") /\ c.arg.status = COMPLETED

\* the fresh run has returned success: true
FreshSuccess(r) ==
    IsFresh(r) /\ r.pc = "done" /\ Has(r.result, "success") /\ r.result.success

(* C9, as the code has it: a fresh run of the finance or the marketing     *)
(* example that returns success: true, the zero-tweets exit included, has  *)
(* moved its session to COMPLETED as its last call; a fresh run of the     *)
(* trading example that returns success: true returns status               *)
(* 'awaiting_approval' and has issued no update to COMPLETED.              *)
C9_SuccessAndCompleted ==
    \A i \in Slots :
        FreshSuccess(inv[i])
        => LET r == inv[i] IN
           IF example = "trading"
           THEN /\ r.result.status = "awaiting_approval"
                /\ CallsWhere(r, IsCompletedUpdate) = {}
                /\ \E k \in 1..Len(r.calls) :
                      /\ r.calls[k].op = "updateSession" /\ r.calls[k].ok
                      /\ ~Has(r.calls[k].arg, "status")
                      /\ r.calls[k].arg.state.phase = "awaiting_approval"
           ELSE /\ IsCompletedUpdate(r.calls[Len(r.calls)])
                /\ r.calls[Len(r.calls)].ok
                /\ sessions[r.session].status = COMPLETED

C9_Witness ==
    \E i \in Slots :
        /\ example = "marketing"
        /\ FreshSuccess(inv[i])
        /\ inv[i].tweets = <<>>
        /\ sessions[inv[i].session].status = COMPLETED

(* C9, as stated: whenever a fresh run returns success: true, its session  *)
(* has been moved to COMPLETED before the response is returned, in the     *)
(* trading example as well.                                                *)
C9_Original ==
    \A i \in Slots :
        FreshSuccess(inv[i])
        => /\ CallsWhere(inv[i], IsCompletedUpdate) /= {}
           /\ sessions[inv[i].session].status = COMPLETED

\* the phase recorded for session s
Phase(store, s) == IF Has(store[s].state, "phase") THEN store[s].state.phase ELSE "none"

(* C10, as stated: the phase of a trading session only moves               *)
(* awaiting_approval -> rejected or awaiting_approval -> executing_trades  *)
(* -> completed; rejected and completed are final: no later continuation   *)
(* call changes the phase or the status of the session or writes further   *)
(* sink items for it. Stated for the steps of continuation calls while no  *)
(* call of any invocation has thrown.                                      *)
C10_Original ==
    [][ example = "trading" =>
        \A s \in 1..Len(sessions) :
            LET p == Phase(sessions, s)
                q == Phase(sessions', s) IN
            /\ (p = "awaiting_approval" /\ q /= p) => q \in {"rejected", "executing_trades"}
            /\ (p = "executing_trades" /\ q /= p) => q = "completed"
            /\ (/\ p \in {"rejected", "completed"}
                /\ \E i \in Slots : /\ IsContinuation(inv[i]) /\ inv[i].sessionId = s
                                     /\ inv'[i] /= inv[i]
                                     /\ budget'.faults = MaxFaults)
               => /\ q = p
                  /\ sessions'[s].status = sessions[s].status
                  /\ sinkItems' = sinkItems
      ]_vars

----------------------------------------------------------------------------
\* the operations a continuation call issues, and those only a fresh run issues
ContinuationReads == {"getSession", "getInputRequest"}
FreshOnlyOps == {"getActiveForAgent", "createSession", "fetchFinancialNews", "pickTopArticles",
                 "proposeTrades", "createInputRequest"}

\* the operations in the call log of an invocation
OpsOf(r) == { r.calls[k].op : k \in 1..Len(r.calls) }

\* the handler the invocation runs, by what it has done
RunsContinuation(r) ==
    /\ r.pc \notin {"startNewWorkflow", "createSession", "fetchFinancialNews", "pickTopArticles",
                    "updateProposing", "proposeTrades", "updateAwaiting", "createInputRequest",
                    "createNews"}
    /\ OpsOf(r) \cap FreshOnlyOps = {}
RunsFresh(r) ==
    /\ r.pc \notin {"handleTradeExecution", "getInputRequest", "updateRejected",
                    "updateExecuting", "createTrades", "updateCompleted"}
    /\ OpsOf(r) \cap ContinuationReads = {}

\* a request of the trading example is dispatched by its two headers alone
DispatchByHeaders ==
    \A i \in Slots :
        (example = "trading" /\ inv[i].pc /= "idle")
        => IF IsContinuation(inv[i])
           THEN RunsContinuation(inv[i]) /\ ~RunsFresh(inv[i])
           ELSE RunsFresh(inv[i]) /\ ~RunsContinuation(inv[i])

\* a step of a fresh run leaves the records named by its headers as they are
LoneHeaderUntouched ==
    \A i \in Slots :
        (example = "trading" /\ inv[i].pc /= "idle" /\ ~IsContinuation(inv[i])
            /\ inv'[i] /= inv[i])
        => /\ inv[i].sessionId \in 1..Len(sessions)
              => sessions'[inv[i].sessionId] = sessions[inv[i].sessionId]
           /\ inv[i].requestId \in 1..Len(requests)
              => requests'[inv[i].requestId] = requests[inv[i].requestId]

(* C11: in the trading example a request runs handleTradeExecution if and  *)
(* only if both its session-id and its request-id header are present and   *)
(* non-empty; every other request, one with exactly one header included,   *)
(* runs a fresh workflow, which issues no read of a session or an input    *)
(* request and leaves the records its lone header names untouched.         *)
C11_DispatchByBothHeaders ==
    []DispatchByHeaders /\ [][LoneHeaderUntouched]_vars

C11_Witness ==
    \E i \in Slots :
        /\ example = "trading"
        /\ inv[i].sessionId = 1 /\ inv[i].requestId = EmptyHeader
        /\ inv[i].pc = "done" /\ inv[i].result.success
        /\ inv[i].session = 2
        /\ sessions[1].status = FAILED

\* an analysis call of the fan-out threw
IsAnalysisThrown(c) == c.op = "analyze" /\ ~c.ok

\* after an analysis call threw, the run issues no sink write and goes
\* nowhere but to its catch block
FailsFast(r) ==
    /\ CallsWhere(r, IsCreateMany) = {}
    /\ r.pc \in {"m.catch", "done", "threw"}
    /\ r.calls[Len(r.calls)].op \in {"analyze", "updateSession"}

(* C12, as stated: in the marketing example, whatever the order in which   *)
(* the analysis calls complete, when one of them throws the run writes no  *)
(* sink item of any category, marks the session FAILED and returns         *)
(* success: false.                                                         *)
C12_Original ==
    \A i \in Slots :
        (example = "marketing" /\ CallsWhere(inv[i], IsAnalysisThrown) /= {})
        => /\ FailsFast(inv[i])
           /\ inv[i].pc /= "threw"
           /\ inv[i].pc = "done" => FailedCleanly(inv[i])

\* the call is an activity-log write that failed
IsFailedLog(c) == c.op = "createActivity" /\ ~c.ok

\* step of invocation i that issues an activity-log write
LogsActivity(i) ==
    /\ Len(inv'[i].calls) = Len(inv[i].calls) + 1
    /\ inv'[i].calls[Len(inv'[i].calls)].op = "createActivity"

\* an activity-log write, failed or not, changes nothing but the activity
\* store: no session, request or sink item changes, no error and no result
\* is set, the run does not go to its catch block, and the invocation goes
\* on exactly as it does when the write succeeds
LoggingIsBestEffort ==
    \A i \in Slots :
        LogsActivity(i)
        => /\ UNCHANGED <<sessions, requests, sinkItems>>
           /\ \E after \in { [inv'[i] EXCEPT !.calls = inv[i].calls] } :
                /\ after.error = inv[i].error /\ after.result = inv[i].result
                /\ after.pc \notin {"f.catch", "m.catch", "catch", "threw", "done"}
                /\ ENABLED ( /\ Next
                             /\ LogsActivity(i)
                             /\ inv'[i].calls[Len(inv'[i].calls)].ok
                             /\ [inv'[i] EXCEPT !.calls = inv[i].calls] = after
                             /\ UNCHANGED <<sessions, requests, sinkItems>> )

\* a run is in its catch block, or has an error, only for a call other than
\* an activity-log write
NoEscalation ==
    \A i \in Slots :
        (inv[i].error /= "" \/ inv[i].pc \in {"f.catch", "m.catch", "threw"})
        => /\ CallsWhere(inv[i], IsRaised) /= {}
           /\ inv[i].error /= "createActivity"

(* C13: activity logging is best-effort.  Whichever activity-log writes    *)
(* fail, each such write leaves the run where the successful write leaves  *)
(* it, so the payload returned, the session updates and the sink items     *)
(* are those of the run in which every write succeeds; a failed write      *)
(* never aborts the run or marks the session FAILED.                       *)
C13_BestEffortLogging ==
    []NoEscalation /\ [][LoggingIsBestEffort]_vars

C13_Witness ==
    \E i \in Slots :
        /\ example = "marketing"
        /\ Cardinality(CallsWhere(inv[i], IsFailedLog)) = 2
        /\ inv[i].pc = "done" /\ inv[i].result.success
        /\ sessions[inv[i].session].status = COMPLETED
        /\ sinkItems /= <<>>

\* what an enabled marketing configuration can lack
LacksKeywords(config) == "keywords" \notin DOMAIN config \/ config.keywords = <<>>
LacksCompanyField(config) ==
    \E f \in {"companyName", "companyDescription", "founderName", "founderContext"} :
        f \notin DOMAIN config \/ config[f] = ""
LacksSinks(config) ==
    "sinks" \notin DOMAIN config
    \/ \A c \in {"opportunities", "trends", "tools", "tutorials"} : config.sinks[c] = ""

(* C14: a marketing run whose enabled configuration has no keywords, lacks *)
(* one of companyName, companyDescription, founderName, founderContext, or *)
(* has no sink id at all returns {success: false, reason} having issued    *)
(* nothing but the configuration read: no session is created and no        *)
(* scrape, model or sink call is made.                                     *)
C14_IncompleteConfigRejected ==
    \A i \in Slots :
        (/\ example = "marketing" /\ Has(inv[i].config, "enabled") /\ inv[i].config.enabled
         /\ \/ LacksKeywords(inv[i].config)
            \/ LacksCompanyField(inv[i].config)
            \/ LacksSinks(inv[i].config))
        => /\ inv[i].pc = "done"
           /\ DOMAIN inv[i].result = {"success", "reason"}
           /\ ~inv[i].result.success
           /\ inv[i].result.reason /= "Agent is disabled"
           /\ OpsOf(inv[i]) = {"getActiveForAgent"}
           /\ Len(inv[i].calls) = 1
           /\ inv[i].session = 0

C14_Witness ==
    \E i \in Slots :
        /\ example = "marketing" /\ Has(inv[i].config, "enabled") /\ inv[i].config.enabled
        /\ ~LacksKeywords(inv[i].config) /\ ~LacksCompanyField(inv[i].config)
        /\ Has(inv[i].config, "sinks") /\ LacksSinks(inv[i].config)
        /\ inv[i].pc = "done" /\ ~inv[i].result.success

IsCreateSession(c) == c.op = "createSession"

\* the fresh run has got past its configuration checks
PassedConfigChecks(r) ==
    /\ IsFresh(r)
    /\ \E k \in 1..Len(r.calls) : r.calls[k].op = "getActiveForAgent" /\ r.calls[k].ok
    /\ ~(r.pc = "done" /\ Len(r.calls) = 1)

\* a fresh run past its checks issues one agentSessions.create, with status
\* RUNNING, and works on the session that call added to the store
CreatesOwnSession ==
    \A i \in Slots :
        /\ IsFresh(inv[i]) => /\ OpsOf(inv[i]) \cap ContinuationReads = {}
                              /\ Cardinality(CallsWhere(inv[i], IsCreateSession)) <= 1
        /\ PassedConfigChecks(inv[i])
           => \/ inv[i].pc \in {"createSession", "f.createSession", "m.createSession"}
                 /\ inv[i].session = 0
              \/ /\ Cardinality(CallsWhere(inv[i], IsCreateSession)) = 1
                 /\ inv[i].calls[2].op = "createSession"
                 /\ inv[i].calls[2].arg.status = RUNNING
                 /\ IF inv[i].calls[2].ok
                    THEN inv[i].session \in 1..Len(sessions)
                    ELSE inv[i].session = 0 /\ inv[i].pc = "threw"

\* a step of a fresh run adds its session to the store or changes that
\* session; every session that was in the store before the run created its
\* own stays as it is, a FAILED one included
TouchesOwnSessionOnly ==
    \A i \in Slots :
        (IsFresh(inv[i]) /\ inv'[i] /= inv[i])
        => /\ Len(sessions') >= Len(sessions)
           /\ \A s \in 1..Len(sessions) :
                s /= inv[i].session => sessions'[s] = sessions[s]
           /\ inv[i].session = 0
              => /\ Len(sessions') <= Len(sessions) + 1
                 /\ inv'[i].session \in {0, Len(sessions) + 1}
                 /\ inv'[i].session /= 0
                    => /\ Len(sessions') = Len(sessions) + 1
                       /\ sessions'[inv'[i].session].status = RUNNING
           /\ inv[i].session /= 0
              => inv'[i].session \in {inv[i].session, 0} /\ Len(sessions') = Len(sessions)

(* C15: every fresh run that passes its configuration checks creates       *)
(* exactly one new session, with status RUNNING, and never reads or        *)
(* updates a session that an earlier invocation created; a session an      *)
(* earlier run left FAILED keeps its status and its error message through  *)
(* every step of the new run.                                              *)
C15_RerunStartsNewSession ==
    []CreatesOwnSession /\ [][TouchesOwnSessionOnly]_vars

C15_Witness ==
    \E i \in Slots :
        /\ example = "marketing"
        /\ IsFresh(inv[i]) /\ inv[i].pc = "done" /\ inv[i].result.success
        /\ inv[i].session = 2
        /\ sessions[2].status = COMPLETED
        /\ sessions[1].status = FAILED /\ sessions[1].error_message = "updateSession"

\* the runs that have created a session
WithSession == { i \in Slots : IsFresh(inv[i]) /\ inv[i].session /= 0 }

\* no two runs in flight work on the same session
OwnSessions ==
    \A i, j \in WithSession : i /= j => inv[i].session /= inv[j].session

\* a session is changed only by an update the run that created it issues
UpdatedByOwnerOnly ==
    \A s \in 1..Len(sessions) :
        sessions'[s] /= sessions[s]
        => \E i \in WithSession :
              /\ inv[i].session = s
              /\ Len(inv'[i].calls) = Len(inv[i].calls) + 1
              /\ LET c == inv'[i].calls[Len(inv'[i].calls)] IN IsUpdate(c) /\ c.ok
              /\ \A j \in Slots \ {i} : inv'[j] = inv[j]

(* C16: concurrent fresh runs are not coordinated with one another: each   *)
(* run creates its own session, no two runs in flight share a session, and *)
(* a session is updated only by the run that created it.  (That two        *)
(* sessions are RUNNING at once while both runs have written sink items is *)
(* the reachable state C16_Witness.)                                       *)
C16_OverlappingRunsOwnSessions ==
    []OwnSessions /\ [][UpdatedByOwnerOnly]_vars

C16_Witness ==
    \E i, j \in WithSession :
        /\ i /= j
        /\ sessions[inv[i].session].status = RUNNING
        /\ sessions[inv[j].session].status = RUNNING
        /\ \A k \in {i, j} :
              \E n \in CallsWhere(inv[k], IsCreateMany) :
                  inv[k].calls[n].ok /\ inv[k].calls[n].arg.items /= <<>>
        /\ Len(sinkItems) >= 2

\* no two items of the list share an id
DistinctIds(tweets) ==
    \A j, k \in 1..Len(tweets) : j /= k => tweets[j].id /= tweets[k].id

\* applied to the list it returned, normalizeTweets returned that list
SameAgain ==
    \A i \in Slots : inv[i].pc = "n.again" => inv[i].tweets = inv[i].rawTweets

\* the list normalizeTweets returned, from raw items or from a list it had
\* returned, has no id twice
EmitsDistinctIds ==
    \A i \in Slots : inv[i].pc \in {"n.normalized", "n.again"} => DistinctIds(inv[i].tweets)

(* C17 as stated: for every version of normalizeTweets and every list of   *)
(* raw items, applying normalizeTweets to the list it returned yields that *)
(* same list, and the list it returns never has two items with one id.     *)
C17_Original == SameAgain /\ EmitsDistinctIds

\* the versions that keep a Map of unique tweets return no id twice
DedupingVersionsEmitDistinctIds ==
    \A i \in Slots :
        (inv[i].pc \in {"n.normalized", "n.again"} /\ inv[i].config.source /= "part_003")
        => DistinctIds(inv[i].tweets)

\* a normalized item has no type field, so the filter drops every item of a
\* list normalizeTweets returned
AppliedAgainIsEmpty ==
    \A i \in Slots : inv[i].pc = "n.again" => inv[i].tweets = <<>>

\* the threshold the run's normalizeTweets was given; 0 when none is set
ThresholdOf(config) ==
    IF config.source = "part_003" THEN 0 ELSE MinAuthorFollowers(config)

\* the four conditions on a raw tweet
NotARetweet(t) == ~Has(t, "isRetweet") \/ t.isRetweet = FALSE
LongEnough(t) == Has(t, "text") /\ Len(Trim(t.text)) >= MinTextLength
TypedTweet(t) == Has(t, "type") /\ t.type = "tweet"
EnoughFollowers(t, min) ==
    min /= 0 => (Has(t, "author") /\ Has(t.author, "followers") /\ t.author.followers >= min)

Qualifies(t, min) ==
    NotARetweet(t) /\ LongEnough(t) /\ TypedTweet(t) /\ EnoughFollowers(t, min)

(* C18: for every raw list and every minAuthorFollowers setting, each item *)
(* normalizeTweets emits carries the id and text of a raw tweet that is    *)
(* not a retweet, has a trimmed text of at least 20 characters, has type   *)
(* 'tweet' and, when a minimum is set, an author with at least that many   *)
(* followers; and every raw tweet meeting the four conditions has its id   *)
(* in the output.                                                          *)
C18_EmittedIffQualifying ==
    \A i \in Slots :
        inv[i].pc = "n.normalized"
        => LET raw == inv[i].rawTweets
               out == inv[i].tweets
               min == ThresholdOf(inv[i].config) IN
           /\ \A k \in 1..Len(out) :
                \E j \in 1..Len(raw) :
                    /\ Qualifies(raw[j], min)
                    /\ out[k].id = raw[j].id /\ out[k].text = raw[j].text
           /\ \A j \in 1..Len(raw) :
                Qualifies(raw[j], min) => \E k \in 1..Len(out) : out[k].id = raw[j].id

C18_Witness ==
    \E i \in Slots :
        /\ inv[i].pc = "n.normalized"
        /\ inv[i].config.source = "index.ts"
        /\ ThresholdOf(inv[i].config) = 200
        /\ Len(inv[i].rawTweets) = 2
        /\ Qualifies(inv[i].rawTweets[1], 0) /\ ~Qualifies(inv[i].rawTweets[1], 200)
        /\ Qualifies(inv[i].rawTweets[2], 200)
        /\ Len(inv[i].tweets) = 1 /\ inv[i].tweets[1].id = inv[i].rawTweets[2].id

\* the content the model returned to the run was empty or absent
GotEmptyContent(r) ==
    /\ Has(r.config, "fn")
    /\ r.pc \notin {"idle", "x.call"}
    /\ r.content \in {Null, Str("")}

\* the content of a model that found nothing
ZeroItems(fn) ==
    IF fn = "analyzeTwitterData"
    THEN JSONText(Spread([run_summary |-> "s"], [k \in AnalysisKeys |-> <<>>]))
    ELSE JSONText([k \in {ExtractionKey(fn)} |-> <<>>])

\* the function returned empty collections, the ones it returns for a model
\* that found nothing, and the run did not go to its catch block
ToleratesEmptyContent(r) ==
    /\ CollectionsRead(r.config.fn, r.extracted) = {Value(<<>>)}
    /\ CollectionsRead(r.config.fn, r.extracted)
         = CollectionsRead(r.config.fn, Extract(r.config.fn, ZeroItems(r.config.fn)))
    /\ r.pc \in {"x.read", "x.proceeds"}
    /\ sessions[r.session].status = RUNNING

(* C19 as stated: when the model returns empty or absent content, every    *)
(* extraction function (pickTopArticles, proposeTrades, the four marketing *)
(* analyses and the single-call analyzeTwitterData) returns empty          *)
(* collections, and the run goes on as for a model that returned zero      *)
(* items: it does not enter its catch block and its session is not FAILED. *)
C19_Original ==
    \A i \in Slots : GotEmptyContent(inv[i]) => ToleratesEmptyContent(inv[i])

\* the same for the functions that read one key of the parsed object
KeyedExtractionsTolerateEmptyContent ==
    \A i \in Slots :
        (GotEmptyContent(inv[i]) /\ inv[i].config.fn \in KeyedExtractions)
        => ToleratesEmptyContent(inv[i])

\* a fresh trading run that has returned success: true
ReturnedAwaiting(r) ==
    /\ example = "trading" /\ IsFresh(r)
    /\ r.pc = "done" /\ r.result.success

\* the schema has one entry per trade of the list, in its order, and notes
SchemaOf(schema, trades) ==
    /\ Len(schema.required) = Len(trades)
    /\ DOMAIN schema.properties = { TradeKey(k - 1) : k \in 1..Len(trades) } \cup {"notes"}
    /\ \A k \in 1..Len(trades) :
          /\ schema.required[k] = TradeKey(k - 1)
          /\ schema.properties[TradeKey(k - 1)].properties.symbol.const = trades[k].symbol
          /\ schema.properties[TradeKey(k - 1)].properties.action.const = trades[k].action
          /\ schema.properties[TradeKey(k - 1)].properties.quantity.const = trades[k].quantity

\* what the run returns and what it did: the ids are those of the session
\* and the input request it created, the request belongs to that session,
\* and the last update the run issued stored phase awaiting_approval with
\* the proposals the schema was built from, before the request was created;
\* the run never passed a status to an update
ReturnsWhatItCreated(r) ==
    /\ r.result.status = "awaiting_approval"
    /\ r.result.sessionId = r.session
    /\ r.result.inputRequestId = r.inputRequest
    /\ r.calls[2].op = "createSession" /\ r.calls[2].ok /\ r.calls[2].arg.status = RUNNING
    /\ r.inputRequest \in 1..Len(requests)
    /\ requests[r.inputRequest].session_id = r.session
    /\ \E u, c \in 1..Len(r.calls) :
          /\ u < c
          /\ IsUpdate(r.calls[u]) /\ r.calls[u].ok
          /\ r.calls[u].arg.state.phase = "awaiting_approval"
          /\ Has(r.calls[u].arg.state, "proposedTrades")
          /\ r.calls[u].arg.state.proposedTrades = r.result.proposedTrades
          /\ \A n \in CallsWhere(r, IsUpdate) : n <= u /\ ~Has(r.calls[n].arg, "status")
          /\ r.calls[c].op = "createInputRequest" /\ r.calls[c].ok
          /\ r.calls[c].arg.session_id = r.session
          /\ SchemaOf(r.calls[c].arg.schema, r.calls[u].arg.state.proposedTrades)
          /\ CallsWhere(r, LAMBDA x : x.op = "createInputRequest") = {c}

\* the stored session as the run left it
StoredAsAwaiting(r) ==
    /\ sessions[r.session].status = RUNNING
    /\ sessions[r.session].state.phase = "awaiting_approval"
    /\ sessions[r.session].state.proposedTrades = r.result.proposedTrades

\* the step that stores the proposals leaves the session RUNNING with phase
\* awaiting_approval and those proposals, and no input request of the run
\* exists yet
StoresBeforeRequesting ==
    \A i \in Slots :
        (example = "trading" /\ IsFresh(inv[i]) /\ inv[i].pc = "updateAwaiting"
           /\ inv'[i].pc = "createInputRequest")
        => /\ sessions'[inv[i].session].status = RUNNING
           /\ sessions'[inv[i].session].state.phase = "awaiting_approval"
           /\ Has(sessions'[inv[i].session].state, "proposedTrades")
           /\ sessions'[inv[i].session].state.proposedTrades = inv[i].proposedTrades
           /\ inv'[i].inputRequest = 0
           /\ \A q \in 1..Len(requests') : requests'[q].session_id /= inv[i].session

\* from then until the run has replied, its session is changed only by a
\* continuation call that names it
ThenOnlyContinuationsChange ==
    \A i \in Slots :
        (example = "trading" /\ IsFresh(inv[i])
           /\ inv[i].pc \in {"createInputRequest", "createNews", "done"}
           /\ inv[i].session /= 0
           /\ sessions'[inv[i].session] /= sessions[inv[i].session])
        => \E j \in Slots \ {i} :
              /\ IsContinuation(inv[j]) /\ inv[j].sessionId = inv[i].session
              /\ inv'[j] /= inv[j]

(* C20 (amended): a trading fresh run that returns success: true returns   *)
(* the id of the session it created and the id of the input request it     *)
(* created for that session, with status 'awaiting_approval'.  The run     *)
(* stored phase awaiting_approval with exactly the proposedTrades the       *)
(* approval schema was built from, leaving the session RUNNING, before it  *)
(* created the input request; when it returns the stored session is still  *)
(* so unless a continuation call naming that session has changed it in the *)
(* meantime.                                                               *)
C20_ReturnsAwaitingApproval ==
    /\ [](\A i \in Slots : ReturnedAwaiting(inv[i]) => ReturnsWhatItCreated(inv[i]))
    /\ [][StoresBeforeRequesting /\ ThenOnlyContinuationsChange]_vars

C20_Witness ==
    \E i \in Slots :
        /\ ReturnedAwaiting(inv[i])
        /\ Len(inv[i].result.proposedTrades) = MaxTrades
        /\ StoredAsAwaiting(inv[i])
        /\ requests[inv[i].result.inputRequestId].response = Null

\* the step at which a fresh trading run returns success: true
ReturnsAwaiting(i) ==
    /\ inv[i].pc = "createNews"
    /\ ReturnedAwaiting(inv'[i])

(* C20 as stated: at the moment a trading fresh run returns success: true, *)
(* the session it created is RUNNING and its stored state has phase        *)
(* awaiting_approval and exactly the proposedTrades of the run.            *)
C20_Original ==
    [][\A i \in Slots :
          ReturnsAwaiting(i)
          => /\ sessions'[inv[i].session].status = RUNNING
             /\ sessions'[inv[i].session].state.phase = "awaiting_approval"
             /\ sessions'[inv[i].session].state.proposedTrades = inv[i].proposedTrades]_vars

\* a marketing run that has read its configuration and gone on
MarketingRun(r) ==
    example = "marketing" /\ IsFresh(r) /\ r.session /= 0

Configured(r, c) == r.config.sinks[c] /= ""

\* the position of category c in the order of storing
PositionOf(c) == CHOOSE k \in 1..Len(CategoryOrder) : CategoryOrder[k] = c

\* the category a sink write is for: the one its first item was found in
CategoryOfWrite(call) == call.arg.items[1].title

\* the sink writes the run has issued, by position in its call log
SinkWrites(r) == CallsWhere(r, IsCreateMany)

\* the analysis calls that have settled
IsAnalysis(c) == c.op = "analyze"

\* the category is to be stored: it has a sink id and its analysis found
\* at least one item
ToBeStored(r, c) == Configured(r, c) /\ Len(r.analysis[c]) > 0

\* the run is past its storing stage
PastStoring(r) ==
    \/ r.pc \in {"m.logReport", "m.updateCompleted"}
    \/ r.pc = "done" /\ r.result.success /\ Has(r.result, "stats")

(* C21: in a marketing run, an analysis call is issued for a category only *)
(* if its sink id is configured, and for every configured category once    *)
(* the fan-out starts; a sink write is issued for a category only if the   *)
(* category is configured and its analysis returned at least one item, at  *)
(* most once, after every such category earlier in the order              *)
(* opportunities, trends, tools, tutorials has been written, and every     *)
(* item of it carries that category's configured sink id; a run that gets  *)
(* past its storing stage has written exactly those categories.            *)
C21_SinkRouting ==
    \A i \in Slots :
        MarketingRun(inv[i])
        => LET r == inv[i] IN
           /\ \A c \in r.pending : Configured(r, c)
           /\ \A n \in CallsWhere(r, IsAnalysis) : Configured(r, r.calls[n].arg.category)
           /\ r.pc = "m.analyze"
              => { c \in Categories : Configured(r, c) }
                   = r.pending \cup { r.calls[n].arg.category : n \in CallsWhere(r, IsAnalysis) }
           /\ \A n \in SinkWrites(r) :
                LET c == CategoryOfWrite(r.calls[n]) IN
                /\ r.calls[n].arg.items /= <<>>
                /\ ToBeStored(r, c)
                /\ Len(r.calls[n].arg.items) = Len(r.analysis[c])
                /\ \A k \in 1..Len(r.calls[n].arg.items) :
                      /\ r.calls[n].arg.items[k].sink_id = r.config.sinks[c]
                      /\ r.calls[n].arg.items[k].sink_id = SinkId(c)
                      /\ r.calls[n].arg.items[k].title = c
                /\ \A m \in SinkWrites(r) :
                      m < n => /\ PositionOf(CategoryOfWrite(r.calls[m])) < PositionOf(c)
                               /\ r.calls[m].ok
                /\ \A b \in Categories :
                      (ToBeStored(r, b) /\ PositionOf(b) < PositionOf(c))
                      => \E m \in SinkWrites(r) :
                            m < n /\ CategoryOfWrite(r.calls[m]) = b
           /\ PastStoring(r)
              => /\ { CategoryOfWrite(r.calls[n]) : n \in SinkWrites(r) }
                      = { c \in Categories : ToBeStored(r, c) }
                 /\ \A n \in SinkWrites(r) : r.calls[n].ok

C21_Witness ==
    \E i \in Slots :
        /\ MarketingRun(inv[i]) /\ PastStoring(inv[i])
        /\ Cardinality(SinkWrites(inv[i])) >= 2
        /\ \E c \in Categories : ~Configured(inv[i], c)
        /\ \E c \in Categories : Configured(inv[i], c) /\ inv[i].analysis[c] = <<>>
        /\ Len(sinkItems) >= 2

IsActivity(c) == c.op = "createActivity"

\* a call of a stage that threw; an activity write is no stage, its error
\* is swallowed by logActivity
IsFailedStage(c) == ~c.ok /\ ~IsActivity(c)

\* the update that marks the session FAILED
IsFailedUpdate(c) == IsUpdate(c) /\ Has(c.arg, "status") /\ c.arg.status = FAILED

\* the calls issued once in a run
OnceOps ==
    {"getActiveForAgent", "createSession", "fetchFinancialNews", "pickTopArticles",
     "proposeTrades", "createInputRequest", "actorCall", "listItems",
     "getSession", "getInputRequest"}

\* two calls of the log are the same call issued again
SameCall(c, d) ==
    /\ c.op = d.op
    /\ \/ c.op \in OnceOps
       \/ c.op = "analyze" /\ c.arg.category = d.arg.category
       \/ c.op = "createMany" /\ c.arg = d.arg /\ c.arg.items /= <<>>

\* no call is issued twice
NoRetry(r) ==
    \A m, n \in 1..Len(r.calls) : m < n => ~SameCall(r.calls[m], r.calls[n])

\* after a stage has thrown the run issues at most one more call, the update
\* of its session to FAILED
AbortsOnFailure(r) ==
    \A n \in 1..Len(r.calls) :
        IsFailedStage(r.calls[n])
        => /\ Len(r.calls) <= n + 1
           /\ Len(r.calls) = n + 1
              => /\ IsFailedUpdate(r.calls[n + 1])
                 /\ ~IsFailedUpdate(r.calls[n])
                 /\ r.pc \in {"done", "threw"}
           /\ r.pc \in {"done", "threw", CatchBlock}

(* C22: within one invocation no external call is issued twice              *)
(* (configuration fetch, session create, source fetch, each model call,    *)
(* input-request create, each sink write), and once a stage has thrown the *)
(* invocation issues no call of a later stage: the only call after the     *)
(* failure is the single update of the session to FAILED.                  *)
C22_NoRetryAbortOnFailure ==
    \A i \in Slots : inv[i].pc /= "idle" => NoRetry(inv[i]) /\ AbortsOnFailure(inv[i])

C22_Witness ==
    \E i \in Slots :
        /\ example = "marketing" /\ IsFresh(inv[i]) /\ inv[i].pc = "done"
        /\ \E n \in CallsWhere(inv[i], IsCreateMany) :
              /\ ~inv[i].calls[n].ok
              /\ Len(inv[i].calls) = n + 1
              /\ IsFailedUpdate(inv[i].calls[n + 1]) /\ inv[i].calls[n + 1].ok
              /\ \E m \in CallsWhere(inv[i], IsCreateMany) : m < n

\* a fresh run has ended after its catch block marked its session FAILED
EndedFailed(r) ==
    /\ IsFresh(r) /\ r.pc = "done" /\ r.session /= 0
    /\ IsFailedUpdate(r.calls[Len(r.calls)]) /\ r.calls[Len(r.calls)].ok

\* the sink writes of the run that returned with at least one item
PersistedWrites(r) ==
    { n \in CallsWhere(r, IsCreateMany) : r.calls[n].ok /\ r.calls[n].arg.items /= <<>> }

(* C23 as stated: whenever a fresh run ends with its session marked        *)
(* FAILED, the run has persisted nothing beside the session state it wrote *)
(* before the failure: no sink item written by that run exists and no      *)
(* input request created by it.                                            *)
C23_Original ==
    \A i \in Slots :
        EndedFailed(inv[i])
        => /\ PersistedWrites(inv[i]) = {}
           /\ inv[i].inputRequest = 0

\* what does hold: the catch block issues no call but the FAILED update, so
\* whatever the run wrote before the failure is still in the stores
FailedRunWritesStay ==
    [][\A i \in Slots :
          (IsFresh(inv[i]) /\ inv[i].pc = CatchBlock /\ inv'[i] /= inv[i])
          => sinkItems' = sinkItems /\ requests' = requests /\ activities' = activities]_vars

\* a continuation call whose request id names an input request that was
\* created for another session than the one its session id names
Miscorrelated(r) ==
    /\ IsContinuation(r)
    /\ requests[r.requestId].session_id /= r.sessionId

(* C24 as stated: a continuation call carrying the id of session S and the *)
(* id of an input request created for a different session never executes,  *)
(* rejects or completes S: it updates no session and writes no sink item.  *)
C24_Original ==
    \A i \in Slots :
        Miscorrelated(inv[i])
        => /\ \A n \in CallsWhere(inv[i], IsUpdate) :
                 ~inv[i].calls[n].ok \/ IsFailedUpdate(inv[i].calls[n])
           /\ CallsWhere(inv[i], IsCreateMany) = {}

\* a call whose two ids belong together decides on the response of the
\* request created for its session
CorrelatedCallsReadOwnRequest ==
    \A i \in Slots :
        (IsContinuation(inv[i]) /\ ~Miscorrelated(inv[i])
           /\ inv[i].pc \in {"updateRejected", "updateExecuting"})
        => /\ requests[inv[i].requestId].session_id = inv[i].sessionId
           /\ inv[i].response = requests[inv[i].requestId].response

\* the key of position k (counted from 1) of a list, as a text
KeyOfIndex(k) == "trade_" \o ToString(k - 1)

\* the elements of a sequence
Range(seq) == { seq[k] : k \in 1..Len(seq) }

\* the schema is the approval schema of the list of trades
IsApprovalSchemaOf(schema, trades) ==
    LET N == Len(trades) IN
    /\ DOMAIN schema.properties = { KeyOfIndex(k) : k \in 1..N } \cup {"notes"}
    /\ Cardinality(DOMAIN schema.properties) = N + 1
    /\ Len(schema.required) = N
    /\ Range(schema.required) = { KeyOfIndex(k) : k \in 1..N }
    /\ "notes" \notin Range(schema.required)
    /\ schema.properties["notes"].type = "string"
    /\ \A k \in 1..N :
          LET p == schema.properties[KeyOfIndex(k)] IN
          /\ p.properties.symbol.const = trades[k].symbol
          /\ p.properties.action.const = trades[k].action
          /\ p.properties.quantity.const = trades[k].quantity
          /\ DOMAIN p.properties = {"symbol", "action", "quantity", "approved"}
          /\ p.properties.approved.type = "boolean"
          /\ p.properties.approved.default = FALSE
          /\ p.required = <<"approved">>
          /\ { f \in DOMAIN p.properties : p.properties[f].type = "boolean" } = {"approved"}

\* a response that approves under the schema's key for position k, and
\* nothing else, makes the continuation approve exactly the trade at k
KeysReadBack(schema, trades) ==
    \A k \in 1..Len(trades) :
        LET response == [key \in {schema.required[k]} |-> [approved |-> TRUE]]
            lists == FilterApproved(trades, response)
        IN  /\ lists.approvedTrades = <<trades[k]>>
            /\ Len(lists.rejectedTrades) = Len(trades) - 1

\* the approval schemas the run has sent
SchemasSent(r) == CallsWhere(r, LAMBDA c : c.op = "createInputRequest")

(* C25: the schema built for a list of N trades has exactly one property   *)
(* trade_i for each index i in 0..N-1 and the optional 'notes', lists      *)
(* exactly the N trade_i keys as required, pins symbol, action and         *)
(* quantity of trade_i to the values of trades[i], exposes one boolean     *)
(* 'approved' per trade (required, default false), and the key built for   *)
(* index i is the key the continuation reads for index i.                  *)
C25_ApprovalSchema ==
    \A i \in Slots :
        \A n \in SchemasSent(inv[i]) :
            /\ IsApprovalSchemaOf(inv[i].calls[n].arg.schema, inv[i].proposedTrades)
            /\ KeysReadBack(inv[i].calls[n].arg.schema, inv[i].proposedTrades)

C25_Witness ==
    \E i \in Slots :
        /\ SchemasSent(inv[i]) /= {}
        /\ Len(inv[i].proposedTrades) = MaxTrades
        /\ inv[i].pc = "createNews"
        /\ \E j \in Slots : IsContinuation(inv[j]) /\ inv[j].pc = "updateExecuting"
                            /\ inv[j].sessionId = inv[i].session

\* the positions of the raw list whose tweet passes the filters
Surviving(raw, min) == { j \in 1..Len(raw) : Qualifies(raw[j], min) }

\* of those, the positions that are the first with their id
FirstOccurrences(raw, min) ==
    { j \in Surviving(raw, min) :
        \A l \in Surviving(raw, min) : l < j => raw[l].id /= raw[j].id }

(* C26: normalizeTweets deduplicates by tweet id keeping the first         *)
(* occurrence among the tweets that passed the filters, and its output     *)
(* keeps the order in which the surviving tweets stood in the raw input:   *)
(* the output is, item by item, the raw tweets at the positions that pass  *)
(* the filters and are the first with their id, in ascending position.     *)
C26_FirstOccurrenceInOrder ==
    \A i \in Slots :
        (inv[i].pc = "n.normalized" /\ inv[i].config.source /= "part_003")
        => LET raw == inv[i].rawTweets
               out == inv[i].tweets
               kept == AtPositions(raw, FirstOccurrences(raw, ThresholdOf(inv[i].config)), 1)
           IN  /\ Len(out) = Len(kept)
               /\ \A k \in 1..Len(out) :
                     /\ out[k].id = kept[k].id
                     /\ out[k].text = kept[k].text
                     /\ out[k].author_followers = Followers(kept[k])

C26_Witness ==
    \E i \in Slots :
        /\ inv[i].pc = "n.normalized"
        /\ Len(inv[i].rawTweets) = 3
        /\ inv[i].rawTweets[1].id = "t2" /\ inv[i].rawTweets[3].id = "t2"
        /\ inv[i].rawTweets[2].id = "t1"
        /\ inv[i].rawTweets[1].text /= inv[i].rawTweets[3].text
        /\ Surviving(inv[i].rawTweets, ThresholdOf(inv[i].config)) = {1, 2, 3}
        /\ Len(inv[i].tweets) = 2
        /\ inv[i].tweets[1].id = "t2" /\ inv[i].tweets[2].id = "t1"
        /\ inv[i].tweets[1].text = inv[i].rawTweets[1].text

Finalized(s) == s \in 1..Len(sessions) /\ sessions[s].status \in {COMPLETED, FAILED}

\* a fresh run of the finance or marketing example whose handler is over
HandlerOver(r) ==
    /\ example \in {"finance", "marketing"}
    /\ IsFresh(r) /\ r.session /= 0
    /\ r.pc \in {"done", "threw"}

\* no session is still RUNNING once the handler of its run is over
NoneRunningAfterHandler ==
    \A i \in Slots : HandlerOver(inv[i]) => Finalized(inv[i].session)

\* every session of the finance or marketing example is finalized in the end
EventuallyFinalized ==
    \A s \in 1..MaxFresh :
        [](example \in {"finance", "marketing"} /\ Len(sessions) >= s => <>Finalized(s))

(* C27 as stated: when every external call eventually returns or throws,   *)
(* every session created by a fresh run of the finance or marketing        *)
(* example eventually has status COMPLETED or FAILED, and no such session  *)
(* is still RUNNING once its handler has returned or thrown, also when the *)
(* session update in the error handler fails.                              *)
C27_Original == []NoneRunningAfterHandler /\ EventuallyFinalized

\* what does hold: a handler that returns has finalized its session
ReturnedHandlersFinalize ==
    \A i \in Slots :
        (HandlerOver(inv[i]) /\ inv[i].pc = "done") => Finalized(inv[i].session)

\* the sink items of the trades sink
TradeSinkItems(items) == SelectSeq(items, LAMBDA item : item.sink_id = TRADES_SINK_ID)

\* a step of a continuation call for a session that is marked FAILED
StepOnFailedSession(j) ==
    /\ IsContinuation(inv[j]) /\ inv'[j] /= inv[j]
    /\ sessions[inv[j].sessionId].status = FAILED

(* C28 as stated: a session marked FAILED is never afterwards given status *)
(* COMPLETED, and a continuation call for it, even with an approving       *)
(* response, writes no trade sink item and does not change its status.     *)
C28_Original ==
    [][/\ \A s \in 1..Len(sessions) :
             sessions[s].status = FAILED => sessions'[s].status = FAILED
       /\ \A j \in Slots :
             StepOnFailedSession(j)
             => TradeSinkItems(sinkItems') = TradeSinkItems(sinkItems)]_vars

\* the positions of the trades sink that hold an item of the trade
ItemsWrittenFor(trade) ==
    { k \in 1..Len(sinkItems) : ItemOfTrade(sinkItems[k], trade) }

\* the places where a session's state proposes the trade
ProposalsOf(trade) ==
    { sp \in (1..Len(sessions)) \X (1..MaxTrades) :
        /\ sp[2] <= Len(AllTrades(sessions[sp[1]].state))
        /\ AllTrades(sessions[sp[1]].state)[sp[2]] = trade }

(* C29 as stated: across all continuation calls for a session, overlapping *)
(* or not, the trades sink receives at most one item per approved trade:   *)
(* a trade has no more items in the sink than sessions proposing it.       *)
C29_Original ==
    example = "trading" =>
        \A k \in 1..MaxTrades :
            Cardinality(ItemsWrittenFor(Trade(k))) <= Cardinality(ProposalsOf(Trade(k)))

\* the step records a STATE_UPDATED activity for the session of invocation i
RecordsStateUpdated(i) ==
    /\ Len(inv'[i].calls) = Len(inv[i].calls) + 1
    /\ LET c == inv'[i].calls[Len(inv'[i].calls)] IN
       IsActivity(c) /\ c.ok /\ c.arg.type = "STATE_UPDATED"
    /\ Len(activities') = Len(activities) + 1

\* the last call invocation i issued is a state update of its session, and
\* it succeeded
StateUpdateSucceeded(i) ==
    /\ inv[i].calls /= <<>>
    /\ LET c == inv[i].calls[Len(inv[i].calls)] IN
       IsUpdate(c) /\ c.ok /\ Has(c.arg, "state")

(* C30 as stated: in every example that logs activities, a STATE_UPDATED   *)
(* activity is recorded for a session only after the corresponding session *)
(* state update has been issued and has succeeded.                         *)
C30_Original ==
    [][\A i \in Slots : RecordsStateUpdated(i) => StateUpdateSucceeded(i)]_vars

\* what does hold: the marketing example records it after the update
MarketingRecordsAfterUpdate ==
    [][\A i \in Slots :
          (example = "marketing" /\ RecordsStateUpdated(i)) => StateUpdateSucceeded(i)]_vars

=============================================================================
